---- MODULE Spec2Model ----
(***************************************************************************)
(* Cache-consistency layer of the chat platform: CacheKeys, CacheManager,  *)
(* CacheService and CacheInvalidation (app/core/cache.py) and the services *)
(* that read through and invalidate the cache (app/services).              *)
(***************************************************************************)
EXTENDS Integers, Sequences, FiniteSets, TLC

VARIABLES
    \* ---- key derivation (pure functions applied to drawn inputs)
    kArgs,        \* the drawn arguments [a, b, limit, offset]
    kKey,         \* conversation_messages(a, b, limit, offset), or <<>> before the call
    kKeyRev,      \* conversation_messages(b, a, limit, offset), or <<>> before the call
    \* ---- CacheManager and the backing store
    cacheEnabled, \* settings.cache_enabled
    started,      \* the application's startup hook has run
    connected,    \* cache_manager.redis is not None
    storeUp,      \* the backing store answers commands
    flaky,        \* a command sent to a store that is up can still raise
    redis,        \* the backing store: populated key -> [val, ttl, age]
    \* ---- source of truth
    db,           \* [users, messages, nextMsgId, clock]
    \* ---- requests in flight
    pc,           \* per process: the step it is at
    op,           \* per process: the operation it runs
    args,         \* per process: the operation's arguments
    loc,          \* per process: the operation's local variables
    result,       \* per process: what the operation returned
    raised,       \* per process: the exception that left the operation ("" = none)
    nreq,         \* number of requests started so far
    \* ---- history (not program state)
    hist,         \* per process: what the operation did and met
    fresh,        \* key -> value passed to the last successful set (domain: such keys)
    committed,    \* the encoded versions of users and messages that were committed
    deleted,      \* key deleted with no successful set since -> whether the delete removed an entry
    lastSet       \* key -> [ttl, age]: the ttl argument of the last successful set by a
                  \* caller of CacheService and the time since, for the keys not deleted since

varsKeys == <<kArgs, kKey, kKeyRev>>
varsStore == <<cacheEnabled, started, connected, storeUp, flaky, redis>>
varsProc == <<pc, op, args, loc, result, raised, nreq>>
varsHist == <<hist, fresh, committed, deleted, lastSet>>
vars == <<kArgs, kKey, kKeyRev, cacheEnabled, started, connected, storeUp, flaky, redis,
          db, pc, op, args, loc, result, raised, nreq, hist, fresh, committed, deleted,
          lastSet>>

-----------------------------------------------------------------------------
(* Bounds of the model *)

MaxKeyId == 11      \* user ids drawn for key derivation: 0..MaxKeyId
MaxUserId == 2      \* user ids of the services: 1..MaxUserId
MaxLimit == 1       \* page limits: 1..MaxLimit and the default
MaxOffset == 1      \* page offsets: 0..MaxOffset
MaxRequests == 3    \* requests started in one behaviour
MaxProcs == 2       \* concurrent requests
MaxTtl == 1         \* ttl arguments of direct cache calls: None and 0..MaxTtl

(* Program constants *)

DefaultLimit == 50
cache_default_ttl == 3600
cache_user_ttl == 1800
cache_message_ttl == 300
cache_conversation_ttl == 600
unread_count_ttl == 60
recent_messages_ttl == 300

Procs == 1..MaxProcs
UserIds == 1..MaxUserId
Limits == (1..MaxLimit) \cup {DefaultLimit}
Offsets == 0..MaxOffset

-----------------------------------------------------------------------------
(* Python values.  Every value is a record of one shape: t is the type,    *)
(* n an integer payload, s a string payload, items the elements of a       *)
(* container (a dict holds key, value, key, value, ...).                   *)

PyNone == [t |-> "none", n |-> 0, s |-> "", items |-> <<>>]
PyInt(k) == [t |-> "int", n |-> k, s |-> "", items |-> <<>>]
PyStr(x) == [t |-> "str", n |-> 0, s |-> x, items |-> <<>>]
PyList(xs) == [t |-> "list", n |-> 0, s |-> "", items |-> xs]
PyTuple(xs) == [t |-> "tuple", n |-> 0, s |-> "", items |-> xs]
PyDict(kvs) == [t |-> "dict", n |-> 0, s |-> "", items |-> kvs]
PyDatetime(d) == [t |-> "datetime", n |-> d, s |-> "", items |-> <<>>]
PyObject(cls) == [t |-> "object", n |-> 0, s |-> cls, items |-> <<>>]

\* str(x) of a value that is not a str: a str whose text is made of the
\* type and the content of x.
PyStrOf(x) == [t |-> "str", n |-> x.n, s |-> x.t, items |-> <<>>]

\* Python truthiness: None, 0, "" and empty containers are falsy.
Truthy(x) ==
    CASE x.t = "none" -> FALSE
      [] x.t \in {"int", "bool"} -> x.n # 0
      [] x.t = "str" -> ~(x.s = "" /\ x.n = 0)
      [] x.t \in {"list", "tuple", "dict"} -> Len(x.items) > 0
      [] OTHER -> TRUE

DictHas(d, key) == \E i \in 1..(Len(d.items) \div 2) : d.items[2 * i - 1] = PyStr(key)

DictGet(d, key) ==
    LET i == CHOOSE j \in 1..(Len(d.items) \div 2) : d.items[2 * j - 1] = PyStr(key)
    IN d.items[2 * i]

DictSet(d, key, v) ==
    IF DictHas(d, key)
    THEN [d EXCEPT !.items = [j \in 1..Len(d.items) |->
             IF j % 2 = 0 /\ d.items[j - 1] = PyStr(key) THEN v ELSE d.items[j]]]
    ELSE [d EXCEPT !.items = d.items \o <<PyStr(key), v>>]

-----------------------------------------------------------------------------
(* json.dumps(value, default=str) and json.loads.  A JSON document is a    *)
(* tree of null / number / string / array / object nodes.                  *)

RECURSIVE JsonDumps(_)
JsonDumps(v) ==
    CASE v.t = "none" -> [t |-> "null", n |-> 0, s |-> "", items |-> <<>>]
      [] v.t = "int" -> [t |-> "number", n |-> v.n, s |-> "", items |-> <<>>]
      [] v.t = "bool" -> [t |-> "boolean", n |-> v.n, s |-> "", items |-> <<>>]
      [] v.t = "str" -> [t |-> "string", n |-> v.n, s |-> v.s, items |-> <<>>]
      [] v.t \in {"list", "tuple"} ->
            [t |-> "array", n |-> 0, s |-> "",
             items |-> [i \in 1..Len(v.items) |-> JsonDumps(v.items[i])]]
      [] v.t = "dict" ->       \* keys become strings, values are encoded
            [t |-> "object", n |-> 0, s |-> "",
             items |-> [i \in 1..Len(v.items) |->
                          IF i % 2 = 1 /\ v.items[i].t # "str"
                          THEN JsonDumps(PyStrOf(v.items[i]))
                          ELSE JsonDumps(v.items[i])]]
      [] OTHER -> JsonDumps(PyStrOf(v))       \* default=str

RECURSIVE JsonLoads(_)
JsonLoads(j) ==
    CASE j.t = "null" -> PyNone
      [] j.t = "number" -> PyInt(j.n)
      [] j.t = "boolean" -> [t |-> "bool", n |-> j.n, s |-> "", items |-> <<>>]
      [] j.t = "string" -> [t |-> "str", n |-> j.n, s |-> j.s, items |-> <<>>]
      [] j.t = "array" -> PyList([i \in 1..Len(j.items) |-> JsonLoads(j.items[i])])
      [] j.t = "object" -> PyDict([i \in 1..Len(j.items) |-> JsonLoads(j.items[i])])

\* The bytes held by the store: the encoding used and the encoded document.
Serialize(value, serialize_method) ==
    IF serialize_method = "json"
    THEN [fmt |-> "json", doc |-> JsonDumps(value)]
    ELSE [fmt |-> "pickle", doc |-> value]

\* json.loads(value.decode('utf-8')): fails on bytes that are not a JSON text
json_loads(bytes) ==
    IF bytes.fmt = "json" THEN [ok |-> TRUE, value |-> JsonLoads(bytes.doc)]
    ELSE [ok |-> FALSE, value |-> PyNone]

\* pickle.loads(value): fails on bytes that are not a pickle
pickle_loads(bytes) ==
    IF bytes.fmt = "pickle" THEN [ok |-> TRUE, value |-> bytes.doc]
    ELSE [ok |-> FALSE, value |-> PyNone]

DeserializeJsonOnly(bytes) == json_loads(bytes)

\* CacheService.get's decoding: JSON first, pickle when the JSON decode
\* fails; not ok when both fail.
Deserialize(bytes) ==
    LET j == json_loads(bytes)
    IN IF j.ok THEN j ELSE pickle_loads(bytes)

-----------------------------------------------------------------------------
(* Cache keys.  A key is the sequence of the characters of the text; a     *)
(* word without ':' , '*' or digits is held as one element.                *)

Digit == <<"0", "1", "2", "3", "4", "5", "6", "7", "8", "9">>

\* str(n) of an integer 0 <= n < 1000
Str(n) ==
    IF n < 10 THEN <<Digit[n + 1]>>
    ELSE IF n < 100 THEN <<Digit[(n \div 10) + 1], Digit[(n % 10) + 1]>>
    ELSE <<Digit[(n \div 100) + 1], Digit[((n \div 10) % 10) + 1], Digit[(n % 10) + 1]>>

Colon == <<":">>
Star == <<"*">>

sorted(a, b) == IF a <= b THEN <<a, b>> ELSE <<b, a>>

CacheKeys_user_profile(user_id) == <<"user", "_profile">> \o Colon \o Str(user_id)

CacheKeys_message(message_id) == <<"message">> \o Colon \o Str(message_id)

conversation_messages_unsorted(user1_id, user2_id, limit, offset) ==
    <<"conversation">> \o Colon \o Str(user1_id) \o Colon \o Str(user2_id)
        \o Colon \o <<"messages">> \o Colon \o Str(limit) \o Colon \o Str(offset)

CacheKeys_conversation_messages(user1_id, user2_id, limit, offset) ==
    LET sorted_ids == sorted(user1_id, user2_id)
    IN <<"conversation">> \o Colon \o Str(sorted_ids[1]) \o Colon \o Str(sorted_ids[2])
        \o Colon \o <<"messages">> \o Colon \o Str(limit) \o Colon \o Str(offset)

user_messages_undelimited(user_id, limit, offset) ==
    <<"user", "_messages">> \o Colon \o Str(user_id) \o Str(limit) \o Colon \o Str(offset)

CacheKeys_user_messages(user_id, limit, offset) ==
    <<"user", "_messages">> \o Colon \o Str(user_id) \o Colon \o Str(limit)
        \o Colon \o Str(offset)

\* Redis glob matching of KEYS: '*' matches any run of characters.
RECURSIVE GlobMatch(_, _)
GlobMatch(pattern, key) ==
    IF pattern = <<>> THEN key = <<>>
    ELSE IF Head(pattern) = "*"
         THEN \E i \in 0..Len(key) : GlobMatch(Tail(pattern), SubSeq(key, i + 1, Len(key)))
         ELSE /\ key # <<>>
              /\ Head(key) = Head(pattern)
              /\ GlobMatch(Tail(pattern), Tail(key))

-----------------------------------------------------------------------------
(* The backing store's commands, on the populated part of the key space.   *)

NoKeys == <<>>                          \* the function with the empty domain

Without(f, ks) == [k \in (DOMAIN f) \ ks |-> f[k]]

With(f, key, v) == [k \in (DOMAIN f) \cup {key} |-> IF k = key THEN v ELSE f[k]]

RedisSetexKeepsFirst(store, key, ttl, bytes) ==
    IF key \in DOMAIN store THEN store
    ELSE With(store, key, [val |-> bytes, ttl |-> ttl, age |-> 0])

\* SETEX key ttl value: the entry lives ttl seconds from now
RedisSetex(store, key, ttl, bytes) == With(store, key, [val |-> bytes, ttl |-> ttl, age |-> 0])

RedisDelKeepsKeys(store, ks) == store

RedisDel(store, ks) == Without(store, ks)

RedisKeysAll(store, pattern) == DOMAIN store

RedisKeys(store, pattern) == {k \in DOMAIN store : GlobMatch(pattern, k)}

-----------------------------------------------------------------------------
(* CacheManager *)

\* connect(): redis is set only when the cache is enabled and the first
\* ping succeeds; every failure is caught and leaves redis = None.
connect(enabled, up) == enabled /\ up

\* is_available(): False without a client, else whether the ping succeeds;
\* a raising ping is caught.
is_available(conn, up) == IF ~conn THEN FALSE ELSE up

-----------------------------------------------------------------------------
(* CacheService.  avail is the answer of the is_available probe, cmdOk     *)
(* tells whether the store's command after the probe succeeds (it raises   *)
(* otherwise).  Every method returns [raised, value]: raised names the     *)
(* exception that leaves the method, "" when none does.                    *)

Return(v) == [raised |-> "", value |-> v]
Raise(e) == [raised |-> e, value |-> PyNone]
PyBool(b) == [t |-> "bool", n |-> IF b THEN 1 ELSE 0, s |-> "", items |-> <<>>]

\* the body of get's try block
get_try(cmdOk, store, key) ==
    IF ~cmdOk THEN Raise("RedisError")
    ELSE IF key \notin DOMAIN store THEN Return(PyNone)
    ELSE LET d == Deserialize(store[key].val)
         IN IF d.ok THEN Return(d.value) ELSE Raise("UnpicklingError")

CacheService_get_no_except(avail, cmdOk, store, key) ==
    IF ~avail THEN Return(PyNone) ELSE get_try(cmdOk, store, key)

CacheService_get(avail, cmdOk, store, key) ==
    IF ~avail THEN Return(PyNone)
    ELSE LET r == get_try(cmdOk, store, key)
         IN IF r.raised # "" THEN Return(PyNone) ELSE r

EffectiveTtlZero(ttl) == 0

\* ttl or settings.cache_default_ttl: None and 0 are both falsy
EffectiveTtl(ttl) == IF Truthy(ttl) THEN ttl.n ELSE cache_default_ttl

set_stores_always(avail, cmdOk) == TRUE

\* whether set reaches SETEX and SETEX succeeds
set_stores(avail, cmdOk) == avail /\ cmdOk

CacheService_set_store(avail, cmdOk, store, key, value, ttl, serialize_method) ==
    IF set_stores(avail, cmdOk)
    THEN RedisSetex(store, key, EffectiveTtl(ttl), Serialize(value, serialize_method))
    ELSE store

CacheService_set_no_except(avail, cmdOk) ==
    IF avail /\ ~cmdOk THEN Raise("RedisError") ELSE Return(PyBool(set_stores(avail, cmdOk)))

\* set catches every exception of its try block and answers False
CacheService_set(avail, cmdOk) == Return(PyBool(set_stores(avail, cmdOk)))

delete_store_unprobed(avail, cmdOk, store, key) == RedisDel(store, {key})

CacheService_delete_store(avail, cmdOk, store, key) ==
    IF avail /\ cmdOk THEN RedisDel(store, {key}) ELSE store

\* result > 0 of DEL: whether the key was there
CacheService_delete(avail, cmdOk, store, key) ==
    Return(PyBool(avail /\ cmdOk /\ key \in DOMAIN store))

\* EXISTS answers the number of keys found; the degraded answer is False
CacheService_exists(avail, cmdOk, store, key) ==
    IF avail /\ cmdOk
    THEN Return(PyInt(IF key \in DOMAIN store THEN 1 ELSE 0))
    ELSE Return(PyBool(FALSE))

\* delete_pattern's KEYS command: the matching keys; none when the probe
\* or the command fails.
delete_pattern_keys(avail, cmdOk, store, pattern) ==
    IF avail /\ cmdOk THEN RedisKeys(store, pattern) ELSE {}

\* delete_pattern's DEL command on the keys found: the store afterwards
delete_pattern_store(cmdOk, store, ks) ==
    IF cmdOk THEN RedisDel(store, ks) ELSE store

\* and the number of keys it removed (0 when DEL raises)
delete_pattern_count(cmdOk, store, ks) ==
    IF cmdOk THEN Cardinality(ks \cap DOMAIN store) ELSE 0

-----------------------------------------------------------------------------
(* Requests.  Records of arguments, locals and history have one shape.     *)

NoArgs ==
    [key |-> <<>>, pattern |-> <<>>, value |-> PyNone, ttl |-> PyNone, method |-> "json",
     pval |-> PyNone, pok |-> TRUE,
     a |-> 0, b |-> 0, limit |-> 0, offset |-> 0, id |-> 0, user |-> 0, q |-> "",
     view |-> ""]

NoLoc ==
    [patterns |-> <<>>, keys |-> {}, cached |-> PyNone, value |-> PyNone,
     obj |-> PyNone, attached |-> FALSE, ret |-> "", count |-> 0, sets |-> <<>>,
     afterSets |-> "", afterGet |-> "", uid |-> 0]

EmptyDb == [users |-> <<>>, messages |-> <<>>, nextMsgId |-> 1, clock |-> 1]

NoHist ==
    [probes |-> {}, cmdFailed |-> FALSE, calls |-> 0, present |-> FALSE, answered |-> FALSE,
     hadFresh |-> FALSE, expected |-> PyNone, wasDeleted |-> FALSE, wasRemoved |-> FALSE,
     trace |-> <<>>, pre |-> {}, overlap |-> FALSE, lastWriter |-> FALSE,
     elapsed |-> FALSE, db0 |-> EmptyDb]

Idle(p) == pc[p] = "idle"

\* a request starts: the other requests in flight now overlap it
Begin(p, o, a, first) ==
    /\ Idle(p)
    /\ started
    /\ nreq < MaxRequests
    /\ nreq' = nreq + 1
    /\ op' = [op EXCEPT ![p] = o]
    /\ args' = [args EXCEPT ![p] = a]
    /\ pc' = [pc EXCEPT ![p] = first]
    /\ result' = [result EXCEPT ![p] = PyNone]
    /\ raised' = [raised EXCEPT ![p] = ""]
    /\ hist' = [q \in Procs |->
                  IF q = p
                  THEN [NoHist EXCEPT !.pre = DOMAIN redis, !.db0 = db,
                                      !.overlap = \E r \in Procs \ {p} : pc[r] \notin {"idle", "done"}]
                  ELSE IF pc[q] \notin {"idle", "done"}
                       THEN [hist[q] EXCEPT !.overlap = TRUE]
                       ELSE hist[q]]

\* the probe and the command of one CacheService call, as the history sees them
Seen(h, avail, cmdOk) ==
    [h EXCEPT !.probes = @ \cup {avail}, !.cmdFailed = @ \/ (avail /\ ~cmdOk)]

Avail == is_available(connected, storeUp)

\* the outcomes a command can have: it raises on a store that is down, and
\* can raise on a store that is up when the connection is flaky
CmdOutcomes == IF ~storeUp THEN {FALSE} ELSE IF flaky THEN BOOLEAN ELSE {TRUE}

\* history of the entries: a successful set makes the key fresh, a
\* successful delete or an expiry ends that
FreshAfterSet(key, value, stored) == IF stored THEN With(fresh, key, value) ELSE fresh

LastSetAfter(key, ttl, stored) ==
    IF stored THEN With(lastSet, key, [ttl |-> ttl, age |-> 0]) ELSE lastSet

\* the ttl argument of the last set of the key was a number of seconds, and
\* that time, and some time, has passed since the set
Elapsed(key) ==
    /\ key \in DOMAIN lastSet
    /\ lastSet[key].ttl.t = "int"
    /\ lastSet[key].age >= lastSet[key].ttl.n
    /\ lastSet[key].age >= 1

-----------------------------------------------------------------------------
(* Steps common to every specification *)

ProcsIdle ==
    /\ pc = [p \in Procs |-> "idle"]
    /\ op = [p \in Procs |-> ""]
    /\ args = [p \in Procs |-> NoArgs]
    /\ loc = [p \in Procs |-> NoLoc]
    /\ result = [p \in Procs |-> PyNone]
    /\ raised = [p \in Procs |-> ""]
    /\ hist = [p \in Procs |-> NoHist]
    /\ nreq = 0

StoreNew ==
    /\ started = FALSE
    /\ connected = FALSE            \* CacheManager.__init__: redis = None
    /\ redis = NoKeys
    /\ fresh = NoKeys
    /\ committed = {}
    /\ deleted = NoKeys
    /\ lastSet = NoKeys

KeysIdle ==
    /\ kArgs = [a |-> 0, b |-> 0, limit |-> 0, offset |-> 0]
    /\ kKey = <<>>
    /\ kKeyRev = <<>>

\* on_startup: cache_manager.connect()
Startup ==
    /\ ~started
    /\ started' = TRUE
    /\ connected' = connect(cacheEnabled, storeUp)
    /\ UNCHANGED <<varsKeys, cacheEnabled, storeUp, flaky, redis, db, varsProc, varsHist>>

\* the store stops answering, or answers again
StoreFail ==
    /\ started /\ storeUp
    /\ storeUp' = FALSE
    /\ UNCHANGED <<varsKeys, cacheEnabled, started, connected, flaky, redis, db, varsProc, varsHist>>

StoreRecover ==
    /\ started /\ ~storeUp
    /\ storeUp' = TRUE
    /\ UNCHANGED <<varsKeys, cacheEnabled, started, connected, flaky, redis, db, varsProc, varsHist>>

\* the store drops an entry whose ttl has elapsed
Expire ==
    \E k \in DOMAIN redis :
        /\ redis' = Without(redis, {k})
        /\ fresh' = Without(fresh, {k})
        /\ lastSet' = Without(lastSet, {k})
        /\ UNCHANGED <<varsKeys, cacheEnabled, started, connected, storeUp, flaky, db, varsProc,
                       hist, committed, deleted>>

\* the response is sent: the process can take the next request
Finish(p) ==
    /\ pc[p] = "done"
    /\ pc' = [pc EXCEPT ![p] = "idle"]
    /\ op' = [op EXCEPT ![p] = ""]
    /\ args' = [args EXCEPT ![p] = NoArgs]
    /\ loc' = [loc EXCEPT ![p] = NoLoc]
    /\ result' = [result EXCEPT ![p] = PyNone]
    /\ raised' = [raised EXCEPT ![p] = ""]
    /\ hist' = [hist EXCEPT ![p] = NoHist]
    /\ UNCHANGED <<varsKeys, varsStore, db, nreq, fresh, lastSet, committed, deleted>>

-----------------------------------------------------------------------------
(* Key derivation on drawn inputs *)

KeyIds == 0..MaxKeyId

InitKeys ==
    /\ kArgs \in [a : KeyIds, b : KeyIds, limit : Limits, offset : Offsets]
    /\ kKey = <<>>
    /\ kKeyRev = <<>>
    /\ cacheEnabled = TRUE
    /\ storeUp = TRUE
    /\ flaky = FALSE
    /\ StoreNew
    /\ db = EmptyDb
    /\ ProcsIdle

DeriveKeys ==
    /\ kKey = <<>>
    /\ kKey' = CacheKeys_conversation_messages(kArgs.a, kArgs.b, kArgs.limit, kArgs.offset)
    /\ kKeyRev' = CacheKeys_conversation_messages(kArgs.b, kArgs.a, kArgs.limit, kArgs.offset)
    /\ UNCHANGED <<kArgs, varsStore, db, varsProc, varsHist>>

NextKeys == DeriveKeys

SpecKeys == InitKeys /\ [][NextKeys]_vars

-----------------------------------------------------------------------------
(* CacheService called directly *)

Ttls == {PyNone} \cup {PyInt(t) : t \in 0..MaxTtl}

\* the keys, patterns and values of the direct calls; one client calls
\* the service, one call after the other
TestKeys == {CacheKeys_message(1), CacheKeys_user_messages(1, DefaultLimit, 0)}

TestPatterns == {<<"user", "_messages">> \o Colon \o Str(u) \o Colon \o Star : u \in {1, 11}}

TestValues == {PyNone, PyInt(1), PyTuple(<<PyInt(1)>>), PyDatetime(1)}

Clients == {1}

StartGet(p) ==
    /\ \E k \in TestKeys : Begin(p, "get", [NoArgs EXCEPT !.key = k], "cs_get")
    /\ UNCHANGED <<varsKeys, varsStore, db, loc, fresh, lastSet, committed, deleted>>

StartSet(p) ==
    /\ \E k \in TestKeys, v \in TestValues, t \in Ttls :
           Begin(p, "set", [NoArgs EXCEPT !.key = k, !.value = v, !.ttl = t], "cs_set")
    /\ UNCHANGED <<varsKeys, varsStore, db, loc, fresh, lastSet, committed, deleted>>

StartDelete(p) ==
    /\ \E k \in TestKeys : Begin(p, "delete", [NoArgs EXCEPT !.key = k], "cs_delete")
    /\ UNCHANGED <<varsKeys, varsStore, db, loc, fresh, lastSet, committed, deleted>>

StartExists(p) ==
    /\ \E k \in TestKeys : Begin(p, "exists", [NoArgs EXCEPT !.key = k], "cs_exists")
    /\ UNCHANGED <<varsKeys, varsStore, db, loc, fresh, lastSet, committed, deleted>>

StartDeletePattern(p) ==
    /\ \E pt \in TestPatterns :
           /\ Begin(p, "delete_pattern", [NoArgs EXCEPT !.pattern = pt], "dp_keys")
           /\ loc' = [loc EXCEPT ![p] = [NoLoc EXCEPT !.patterns = <<pt>>, !.ret = "done"]]
    /\ UNCHANGED <<varsKeys, varsStore, db, fresh, lastSet, committed, deleted>>

StartGetOrSet(p) ==
    /\ \E k \in TestKeys, v \in TestValues, ok \in BOOLEAN, t \in Ttls :
           Begin(p, "get_or_set",
                 [NoArgs EXCEPT !.key = k, !.pval = v, !.pok = ok, !.ttl = t], "gos_get")
    /\ UNCHANGED <<varsKeys, varsStore, db, loc, fresh, lastSet, committed, deleted>>

\* CacheService.get
CacheGet(p) ==
    /\ pc[p] = "cs_get"
    /\ \E cmdOk \in CmdOutcomes :
         LET k == args[p].key
             r == CacheService_get(Avail, cmdOk, redis, k)
         IN /\ result' = [result EXCEPT ![p] = r.value]
            /\ raised' = [raised EXCEPT ![p] = r.raised]
            /\ hist' = [hist EXCEPT ![p] =
                 [Seen(@, Avail, cmdOk) EXCEPT
                     !.present = k \in DOMAIN redis,
                     !.answered = Avail /\ cmdOk,
                     !.hadFresh = k \in DOMAIN fresh,
                     !.expected = IF k \in DOMAIN fresh THEN fresh[k] ELSE PyNone,
                     !.elapsed = Elapsed(k),
                     !.wasDeleted = k \in DOMAIN deleted,
                     !.wasRemoved = k \in DOMAIN deleted /\ deleted[k]]]
    /\ pc' = [pc EXCEPT ![p] = "done"]
    /\ UNCHANGED <<varsKeys, varsStore, db, op, args, loc, nreq, fresh, lastSet, committed, deleted>>

\* CacheService.set
CacheSet(p) ==
    /\ pc[p] = "cs_set"
    /\ \E cmdOk \in CmdOutcomes :
         LET k == args[p].key
             r == CacheService_set(Avail, cmdOk)
         IN /\ redis' = CacheService_set_store(Avail, cmdOk, redis, k, args[p].value,
                                               args[p].ttl, args[p].method)
            /\ result' = [result EXCEPT ![p] = r.value]
            /\ raised' = [raised EXCEPT ![p] = r.raised]
            /\ hist' = [hist EXCEPT ![p] = Seen(@, Avail, cmdOk)]
            /\ fresh' = FreshAfterSet(k, args[p].value, set_stores(Avail, cmdOk))
            /\ lastSet' = LastSetAfter(k, args[p].ttl, set_stores(Avail, cmdOk))
            /\ deleted' = IF set_stores(Avail, cmdOk) THEN Without(deleted, {k}) ELSE deleted
    /\ pc' = [pc EXCEPT ![p] = "done"]
    /\ UNCHANGED <<varsKeys, cacheEnabled, started, connected, storeUp, flaky, db, op, args, loc, nreq,
                   committed>>

\* CacheService.delete
CacheDelete(p) ==
    /\ pc[p] = "cs_delete"
    /\ \E cmdOk \in CmdOutcomes :
         LET k == args[p].key
             r == CacheService_delete(Avail, cmdOk, redis, k)
         IN /\ redis' = CacheService_delete_store(Avail, cmdOk, redis, k)
            /\ result' = [result EXCEPT ![p] = r.value]
            /\ raised' = [raised EXCEPT ![p] = r.raised]
            /\ hist' = [hist EXCEPT ![p] = Seen(@, Avail, cmdOk)]
            /\ fresh' = IF Avail /\ cmdOk THEN Without(fresh, {k}) ELSE fresh
            /\ lastSet' = IF Avail /\ cmdOk THEN Without(lastSet, {k}) ELSE lastSet
            /\ deleted' = IF Avail /\ cmdOk THEN With(deleted, k, k \in DOMAIN redis) ELSE deleted
    /\ pc' = [pc EXCEPT ![p] = "done"]
    /\ UNCHANGED <<varsKeys, cacheEnabled, started, connected, storeUp, flaky, db, op, args, loc, nreq,
                   committed>>

\* CacheService.exists
CacheExists(p) ==
    /\ pc[p] = "cs_exists"
    /\ \E cmdOk \in CmdOutcomes :
         LET r == CacheService_exists(Avail, cmdOk, redis, args[p].key)
         IN /\ result' = [result EXCEPT ![p] = r.value]
            /\ raised' = [raised EXCEPT ![p] = r.raised]
            /\ hist' = [hist EXCEPT ![p] = Seen(@, Avail, cmdOk)]
    /\ pc' = [pc EXCEPT ![p] = "done"]
    /\ UNCHANGED <<varsKeys, varsStore, db, op, args, loc, nreq, fresh, lastSet, committed, deleted>>

\* CacheService.delete_pattern, first command: KEYS pattern.  The patterns
\* of one invalidation are purged one after the other.
DeletePatternKeys(p) ==
    /\ pc[p] = "dp_keys"
    /\ \E cmdOk \in CmdOutcomes :
         LET ks == delete_pattern_keys(Avail, cmdOk, redis, Head(loc[p].patterns))
             rest == Tail(loc[p].patterns)
         IN /\ hist' = [hist EXCEPT ![p] =
                          [Seen(@, Avail, cmdOk) EXCEPT !.trace = Append(@, "invalidate")]]
            /\ IF ks # {}
               THEN /\ loc' = [loc EXCEPT ![p].keys = ks]
                    /\ pc' = [pc EXCEPT ![p] = "dp_del"]
                    /\ UNCHANGED result
               ELSE /\ loc' = [loc EXCEPT ![p].patterns = rest]
                    /\ pc' = [pc EXCEPT ![p] = IF rest = <<>> THEN loc[p].ret ELSE "dp_keys"]
                    /\ result' = IF rest = <<>> /\ op[p] = "delete_pattern"
                                 THEN [result EXCEPT ![p] = PyInt(loc[p].count)]
                                 ELSE result
    /\ UNCHANGED <<varsKeys, varsStore, db, op, args, raised, nreq, fresh, lastSet, committed, deleted>>

\* CacheService.delete_pattern, second command: DEL of the keys found
DeletePatternDel(p) ==
    /\ pc[p] = "dp_del"
    /\ \E cmdOk \in CmdOutcomes :
         LET ks == loc[p].keys
             rest == Tail(loc[p].patterns)
             total == loc[p].count + delete_pattern_count(cmdOk, redis, ks)
         IN /\ redis' = delete_pattern_store(cmdOk, redis, ks)
            /\ fresh' = IF cmdOk THEN Without(fresh, ks) ELSE fresh
            /\ lastSet' = IF cmdOk THEN Without(lastSet, ks) ELSE lastSet
            /\ hist' = [hist EXCEPT ![p].cmdFailed = @ \/ ~cmdOk]
            /\ loc' = [loc EXCEPT ![p].patterns = rest, ![p].keys = {}, ![p].count = total]
            /\ pc' = [pc EXCEPT ![p] = IF rest = <<>> THEN loc[p].ret ELSE "dp_keys"]
            /\ result' = IF rest = <<>> /\ op[p] = "delete_pattern"
                         THEN [result EXCEPT ![p] = PyInt(total)]
                         ELSE result
    /\ UNCHANGED <<varsKeys, cacheEnabled, started, connected, storeUp, flaky, db, op, args,
                   raised, nreq, committed, deleted>>

\* CacheService.get_or_set: the get
GetOrSetGet(p) ==
    /\ pc[p] = "gos_get"
    /\ \E cmdOk \in CmdOutcomes :
         LET k == args[p].key
             r == CacheService_get(Avail, cmdOk, redis, k)
         IN /\ hist' = [hist EXCEPT ![p] =
                          [Seen(@, Avail, cmdOk) EXCEPT
                              !.present = k \in DOMAIN redis,
                              !.answered = Avail /\ cmdOk,
                              !.hadFresh = k \in DOMAIN fresh,
                              !.expected = IF k \in DOMAIN fresh THEN fresh[k] ELSE PyNone]]
            /\ raised' = [raised EXCEPT ![p] = r.raised]
            /\ IF r.raised # ""
               THEN /\ pc' = [pc EXCEPT ![p] = "done"]
                    /\ UNCHANGED result
               ELSE IF r.value # PyNone             \* cached_value is not None
               THEN /\ pc' = [pc EXCEPT ![p] = "done"]
                    /\ result' = [result EXCEPT ![p] = r.value]
               ELSE /\ pc' = [pc EXCEPT ![p] = "gos_func"]
                    /\ UNCHANGED result
    /\ UNCHANGED <<varsKeys, varsStore, db, op, args, loc, nreq, fresh, lastSet, committed, deleted>>

\* CacheService.get_or_set: the producer runs; its exception leaves get_or_set
GetOrSetFunc(p) ==
    /\ pc[p] = "gos_func"
    /\ hist' = [hist EXCEPT ![p].calls = @ + 1]
    /\ IF args[p].pok
       THEN /\ loc' = [loc EXCEPT ![p].value = args[p].pval]
            /\ pc' = [pc EXCEPT ![p] = "gos_set"]
            /\ UNCHANGED raised
       ELSE /\ raised' = [raised EXCEPT ![p] = "ProducerError"]
            /\ pc' = [pc EXCEPT ![p] = "done"]
            /\ UNCHANGED loc
    /\ UNCHANGED <<varsKeys, varsStore, db, op, args, result, nreq, fresh, lastSet, committed, deleted>>

\* CacheService.get_or_set: the set of the produced value, which is returned
GetOrSetSet(p) ==
    /\ pc[p] = "gos_set"
    /\ \E cmdOk \in CmdOutcomes :
         LET k == args[p].key
             r == CacheService_set(Avail, cmdOk)
         IN /\ redis' = CacheService_set_store(Avail, cmdOk, redis, k, loc[p].value,
                                               args[p].ttl, "json")
            /\ raised' = [raised EXCEPT ![p] = r.raised]
            /\ hist' = [q \in Procs |->
                          IF q = p
                          THEN [Seen(hist[p], Avail, cmdOk) EXCEPT
                                   !.lastWriter = set_stores(Avail, cmdOk)]
                          ELSE IF set_stores(Avail, cmdOk)
                               THEN [hist[q] EXCEPT !.lastWriter = FALSE]
                               ELSE hist[q]]
            /\ fresh' = FreshAfterSet(k, loc[p].value, set_stores(Avail, cmdOk))
            /\ lastSet' = LastSetAfter(k, args[p].ttl, set_stores(Avail, cmdOk))
            /\ deleted' = IF set_stores(Avail, cmdOk) THEN Without(deleted, {k}) ELSE deleted
    /\ result' = [result EXCEPT ![p] = loc[p].value]
    /\ pc' = [pc EXCEPT ![p] = "done"]
    /\ UNCHANGED <<varsKeys, cacheEnabled, started, connected, storeUp, flaky, db, op, args, loc, nreq,
                   committed>>

InitCache ==
    /\ KeysIdle
    /\ cacheEnabled \in BOOLEAN
    /\ storeUp \in BOOLEAN
    /\ flaky = TRUE
    /\ StoreNew
    /\ db = EmptyDb
    /\ ProcsIdle

NextCache ==
    \/ Startup
    \/ StoreFail
    \/ StoreRecover
    \/ Expire
    \/ \E p \in Clients :
         \/ StartGet(p)
         \/ StartSet(p)
         \/ StartDelete(p)
         \/ StartExists(p)
         \/ StartDeletePattern(p)
         \/ StartGetOrSet(p)
         \/ CacheGet(p)
         \/ CacheSet(p)
         \/ CacheDelete(p)
         \/ CacheExists(p)
         \/ DeletePatternKeys(p)
         \/ DeletePatternDel(p)
         \/ GetOrSetGet(p)
         \/ GetOrSetFunc(p)
         \/ GetOrSetSet(p)
         \/ Finish(p)

SpecCache == InitCache /\ [][NextCache]_vars

-----------------------------------------------------------------------------
(* Claims on key derivation and on CacheService *)

\* C1: conversation_messages(a, b, limit, offset) and
\* conversation_messages(b, a, limit, offset) are the same key, for all user
\* ids a, b and all limits and offsets.
C1_ConversationKeySymmetric == kKey # <<>> => kKey = kKeyRev

\* the key was derived for a pair given in descending order
C1_Witness == kKey # <<>> /\ kArgs.a > kArgs.b

Done(p, o) == pc[p] = "done" /\ op[p] = o

\* C2: get_or_set invokes the producer exactly once when the key is absent
\* and not at all when the key holds an entry that the store hands out, for
\* every value the producer can return.
C2_ProducerOnceColdNeverWarm ==
    \A p \in Procs :
        Done(p, "get_or_set") =>
            /\ ~hist[p].present => hist[p].calls = 1
            /\ hist[p].present /\ hist[p].answered => hist[p].calls = 0

\* C3: with the store available and no delete or expiry in between, get(k)
\* returns the value v that the last set(k, v, ttl) was given.
C3_SetThenGetReturnsValue ==
    \A p \in Procs :
        Done(p, "get") /\ hist[p].answered /\ hist[p].hadFresh =>
            result[p] = hist[p].expected

\* C4: a get(k) that follows a completed delete(k), with no set of k in
\* between, returns None.
C4_GetAfterDeleteAbsent ==
    \A p \in Procs :
        Done(p, "get") /\ hist[p].wasDeleted => result[p] = PyNone

\* the store answered a get of a key whose entry a delete had removed
C4_Witness ==
    \E p \in Procs :
        Done(p, "get") /\ hist[p].wasRemoved /\ hist[p].answered /\ result[p] = PyNone

\* the value each method returns when it cannot use the store
Degraded(o) ==
    CASE o = "get" -> PyNone
      [] o = "delete_pattern" -> PyInt(0)
      [] OTHER -> PyBool(FALSE)                 \* set, delete, exists

\* C5: while the store is unavailable, get returns None, set, delete and
\* exists return False, delete_pattern returns 0, none raises, and
\* get_or_set invokes the producer on every call and returns its value.
C5_UnavailableDegrades ==
    \A p \in Procs :
        pc[p] = "done" /\ hist[p].probes = {FALSE} =>
            IF op[p] = "get_or_set"
            THEN /\ hist[p].calls = 1
                 /\ args[p].pok => raised[p] = "" /\ result[p] = args[p].pval
            ELSE raised[p] = "" /\ result[p] = Degraded(op[p])

\* get_or_set fell through to the producer although the key held an entry
C5_Witness ==
    \E p \in Procs :
        /\ Done(p, "get_or_set") /\ hist[p].probes = {FALSE} /\ hist[p].present
        /\ hist[p].calls = 1 /\ result[p] = args[p].pval /\ result[p] # PyNone

\* C6: no failure of the store leaves get, set, delete, delete_pattern,
\* exists or get_or_set: a method whose command raised returns its miss or
\* no-op value, and only the producer's own exception leaves get_or_set.
C6_NoCacheExceptionPropagates ==
    \A p \in Procs :
        /\ raised[p] # "" =>
               op[p] = "get_or_set" /\ raised[p] = "ProducerError" /\ ~args[p].pok
        /\ pc[p] = "done" /\ hist[p].cmdFailed /\ op[p] # "get_or_set" =>
               result[p] = Degraded(op[p])

\* a GET raised after a successful probe, on a key that held an entry
C6_Witness ==
    \E p \in Procs :
        Done(p, "get") /\ hist[p].cmdFailed /\ hist[p].present /\ result[p] = PyNone

-----------------------------------------------------------------------------
(* The source of truth: the users and direct_messages tables *)

NamePool == <<"alice", "bob", "carol", "dave", "erin">>
EmailPool == <<"alice@x", "bob@x", "carol@x", "dave@x", "erin@x">>
Contents == {"hi"}

\* the texts given character by character: every text of at most three
\* characters over 'a', ':' and '1'
Spelled ==
    ("" :> <<>>) @@ ("a" :> <<"a">>) @@ (":" :> <<":">>) @@ ("1" :> <<"1">>) @@
    ("aa" :> <<"a", "a">>) @@ ("a:" :> <<"a", ":">>) @@ ("a1" :> <<"a", "1">>) @@
    (":a" :> <<":", "a">>) @@ ("::" :> <<":", ":">>) @@ (":1" :> <<":", "1">>) @@
    ("1a" :> <<"1", "a">>) @@ ("1:" :> <<"1", ":">>) @@ ("11" :> <<"1", "1">>) @@
    ("aaa" :> <<"a", "a", "a">>) @@ ("aa:" :> <<"a", "a", ":">>) @@
    ("aa1" :> <<"a", "a", "1">>) @@ ("a:a" :> <<"a", ":", "a">>) @@
    ("a::" :> <<"a", ":", ":">>) @@ ("a:1" :> <<"a", ":", "1">>) @@
    ("a1a" :> <<"a", "1", "a">>) @@ ("a1:" :> <<"a", "1", ":">>) @@
    ("a11" :> <<"a", "1", "1">>) @@ (":aa" :> <<":", "a", "a">>) @@
    (":a:" :> <<":", "a", ":">>) @@ (":a1" :> <<":", "a", "1">>) @@
    ("::a" :> <<":", ":", "a">>) @@ (":::" :> <<":", ":", ":">>) @@
    ("::1" :> <<":", ":", "1">>) @@ (":1a" :> <<":", "1", "a">>) @@
    (":1:" :> <<":", "1", ":">>) @@ (":11" :> <<":", "1", "1">>) @@
    ("1aa" :> <<"1", "a", "a">>) @@ ("1a:" :> <<"1", "a", ":">>) @@
    ("1a1" :> <<"1", "a", "1">>) @@ ("1:a" :> <<"1", ":", "a">>) @@
    ("1::" :> <<"1", ":", ":">>) @@ ("1:1" :> <<"1", ":", "1">>) @@
    ("11a" :> <<"1", "1", "a">>) @@ ("11:" :> <<"1", "1", ":">>) @@
    ("111" :> <<"1", "1", "1">>)

\* the characters of a text: a text with ':' or digits is held character
\* by character, any other text of the model is a single word
Chars(text) == IF text \in DOMAIN Spelled THEN Spelled[text] ELSE <<text>>

UserRow_without_email(id, username, email) ==
    [id |-> id, username |-> username, email |-> "", display_name |-> ""]

\* User(username=..., email=..., hashed_password=...) as persisted
UserRow(id, username, email) ==
    [id |-> id, username |-> username, email |-> email, display_name |-> ""]

\* the registered users, before any message is sent
SeedDb ==
    [users |-> [i \in UserIds |-> UserRow(i, NamePool[i], EmailPool[i])],
     messages |-> <<>>, nextMsgId |-> 1, clock |-> 1]

\* user.__dict__ of a loaded User
UserDict(row) ==
    PyDict(<<PyStr("_sa_instance_state"), PyObject("InstanceState"),
             PyStr("id"), PyInt(row.id),
             PyStr("username"), PyStr(row.username),
             PyStr("email"), PyStr(row.email),
             PyStr("hashed_password"), PyStr("hash"),
             PyStr("is_active"), PyBool(TRUE),
             PyStr("created_at"), PyDatetime(0),
             PyStr("display_name"), IF row.display_name = "" THEN PyNone ELSE PyStr(row.display_name),
             PyStr("avatar_url"), PyNone,
             PyStr("last_seen"), PyNone,
             PyStr("timezone"), PyStr("UTC")>>)

\* message.__dict__ of a loaded DirectMessage
MessageDict(row) ==
    PyDict(<<PyStr("_sa_instance_state"), PyObject("InstanceState"),
             PyStr("id"), PyInt(row.id),
             PyStr("content"), PyStr(row.content),
             PyStr("sender_id"), PyInt(row.sender_id),
             PyStr("recipient_id"), PyInt(row.recipient_id),
             PyStr("created_at"), PyDatetime(row.created_at),
             PyStr("message_type"), PyStr(row.message_type),
             PyStr("is_read"), PyInt(row.is_read)>>)

\* db.add(message); db.commit(); db.refresh(message)
NewMessageRow(d, sender_id, recipient_id, content) ==
    [id |-> d.nextMsgId, content |-> content, sender_id |-> sender_id,
     recipient_id |-> recipient_id, created_at |-> d.clock,
     message_type |-> "text", is_read |-> 0]

InsertMessage(d, row) ==
    [d EXCEPT !.messages = Append(@, row), !.nextMsgId = @ + 1, !.clock = @ + 1]

\* query(DirectMessage).filter(DirectMessage.id == message_id).first()
HasMessage(d, message_id) == \E i \in 1..Len(d.messages) : d.messages[i].id = message_id

MessageById(d, message_id) ==
    d.messages[CHOOSE i \in 1..Len(d.messages) : d.messages[i].id = message_id]

CommitReadNothing(d, message_id) == d

\* the commit of message.is_read = 1 on a row the session loaded
CommitRead(d, message_id) ==
    [d EXCEPT !.messages = [i \in 1..Len(@) |->
        IF @[i].id = message_id THEN [@[i] EXCEPT !.is_read = 1] ELSE @[i]]]

\* the commit of an object the session does not hold writes nothing
CommitDetached(d, message_id) == d

\* order_by(desc(created_at)): the newest first
RECURSIVE OrderByCreatedDesc(_)
OrderByCreatedDesc(rows) ==
    IF rows = <<>> THEN <<>>
    ELSE LET i == CHOOSE j \in 1..Len(rows) :
                      \A k \in 1..Len(rows) : rows[k].created_at <= rows[j].created_at
         IN <<rows[i]>> \o OrderByCreatedDesc(SubSeq(rows, 1, i - 1) \o SubSeq(rows, i + 1, Len(rows)))

\* .offset(offset).limit(limit)
Page(rows, offset, limit) ==
    SubSeq(rows, offset + 1, IF offset + limit < Len(rows) THEN offset + limit ELSE Len(rows))

Between(m, u1, u2) ==
    \/ m.sender_id = u1 /\ m.recipient_id = u2
    \/ m.sender_id = u2 /\ m.recipient_id = u1

ConversationQuery(d, u1, u2, limit, offset) ==
    LET Test(m) == Between(m, u1, u2)
    IN Page(OrderByCreatedDesc(SelectSeq(d.messages, Test)), offset, limit)

UserMessagesQuery(d, u, limit, offset) ==
    LET Test(m) == m.sender_id = u \/ m.recipient_id = u
    IN Page(OrderByCreatedDesc(SelectSeq(d.messages, Test)), offset, limit)

UnreadCountQuery(d, u) ==
    LET Test(m) == m.recipient_id = u /\ m.is_read = 0
    IN Len(SelectSeq(d.messages, Test))

RecentQuery(d, u, limit) ==
    LET Test(m) == m.recipient_id = u
    IN Page(OrderByCreatedDesc(SelectSeq(d.messages, Test)), 0, limit)

\* content.ilike('%query%'), on the texts of the model
ILike(content, query) == query = "" \/ query = content \/ (query = "h" /\ content = "hi")

SearchQuery(d, u, query, limit) ==
    LET Test(m) == (m.sender_id = u \/ m.recipient_id = u) /\ ILike(m.content, query)
    IN Page(OrderByCreatedDesc(SelectSeq(d.messages, Test)), 0, limit)

\* the partners of u with the unread counts, sorted by (-unread, name)
PartnerIds(d, u) ==
    {v \in DOMAIN d.users : \E i \in 1..Len(d.messages) : Between(d.messages[i], u, v)}

PartnerUnread(d, u, v) ==
    LET Test(m) == m.sender_id = v /\ m.recipient_id = u /\ m.is_read = 0
    IN Len(SelectSeq(d.messages, Test))

PartnerName(d, v) ==
    IF d.users[v].display_name # "" THEN d.users[v].display_name ELSE d.users[v].username

\* the texts of the model in the order sort compares them
SortedTexts == <<"al", "alice", "bob", "carol", "dave", "erin", "zed">>

NameRank(name) == CHOOSE i \in 1..Len(SortedTexts) : SortedTexts[i] = name

PartnerBefore(d, u, v, w) ==
    \/ PartnerUnread(d, u, v) > PartnerUnread(d, u, w)
    \/ /\ PartnerUnread(d, u, v) = PartnerUnread(d, u, w)
       /\ \/ NameRank(PartnerName(d, v)) < NameRank(PartnerName(d, w))
          \/ NameRank(PartnerName(d, v)) = NameRank(PartnerName(d, w)) /\ v <= w

RECURSIVE SortPartners(_, _, _)
SortPartners(d, u, vs) ==
    IF vs = {} THEN <<>>
    ELSE LET v == CHOOSE x \in vs : \A y \in vs : PartnerBefore(d, u, x, y)
         IN <<PyTuple(<<PyInt(v), PyStr(PartnerName(d, v)), PyInt(PartnerUnread(d, u, v))>>)>>
              \o SortPartners(d, u, vs \ {v})

PartnersQuery(d, u) == SortPartners(d, u, PartnerIds(d, u))

DictsOf(rows) == PyList([i \in 1..Len(rows) |-> MessageDict(rows[i])])

UserDictsOf(rows) == PyList([i \in 1..Len(rows) |-> UserDict(rows[i])])

UserSearchLimit == 10
online_users_ttl == 60

\* is_active and (username ilike %query% or display_name ilike %query%)
SearchUsersQuery(d, query, limit) ==
    LET Test(u) == ILike(u.username, query) \/ ILike(u.display_name, query)
    IN Page(SelectSeq(d.users, Test), 0, limit)

\* is_active and last_seen within the last five minutes: last_seen is set
\* by a login, and no user of the model has logged in that recently
OnlineUsersQuery(d) == SelectSeq(d.users, LAMBDA u : FALSE)

-----------------------------------------------------------------------------
(* CacheInvalidation: the patterns each strategy purges, in order *)

ConversationPattern(u1, u2) ==
    <<"conversation">> \o Colon \o Str(u1) \o Colon \o Str(u2) \o Colon \o Star

UserMessagesPattern(u) == <<"user", "_messages">> \o Colon \o Str(u) \o Colon \o Star

invalidate_user_cache(user_id) ==
    << <<"user">> \o Colon \o Str(user_id) \o Colon \o Star,
       CacheKeys_user_profile(user_id),
       UserMessagesPattern(user_id),
       <<"conversation">> \o Colon \o Str(user_id) \o Colon \o Star,
       Star \o Colon \o Str(user_id) \o Colon \o Star >>

invalidate_message_cache_one_direction(message_id, sender_id, recipient_id) ==
    << CacheKeys_message(message_id),
       ConversationPattern(sender_id, recipient_id),
       UserMessagesPattern(sender_id),
       UserMessagesPattern(recipient_id) >>

invalidate_message_cache_message_only(message_id, sender_id, recipient_id) ==
    << CacheKeys_message(message_id) >>

invalidate_message_cache_pages_only(message_id, sender_id, recipient_id) ==
    << ConversationPattern(sender_id, recipient_id),
       ConversationPattern(recipient_id, sender_id),
       UserMessagesPattern(sender_id),
       UserMessagesPattern(recipient_id) >>

invalidate_message_cache(message_id, sender_id, recipient_id) ==
    << CacheKeys_message(message_id),
       ConversationPattern(sender_id, recipient_id),
       ConversationPattern(recipient_id, sender_id),
       UserMessagesPattern(sender_id),
       UserMessagesPattern(recipient_id) >>

invalidate_conversation_cache(user1_id, user2_id) ==
    << ConversationPattern(user1_id, user2_id),
       ConversationPattern(user2_id, user1_id),
       UserMessagesPattern(user1_id),
       UserMessagesPattern(user2_id) >>

-----------------------------------------------------------------------------
(* MessageService: the read-through views.  A view is named by the method; *)
(* its arguments are user (the asking user), b (the other user), limit,    *)
(* offset and q (the query text).                                          *)

ViewKey(view, a) ==
    CASE view = "get_conversation_messages" ->
            CacheKeys_conversation_messages(a.user, a.b, a.limit, a.offset)
      [] view = "get_user_messages" -> CacheKeys_user_messages(a.user, a.limit, a.offset)
      [] view = "get_unread_count" -> <<"unread_count">> \o Colon \o Str(a.user)
      [] view = "get_conversation_partners" ->
            <<"conversation", "_partners">> \o Colon \o Str(a.user)
      [] view = "search_messages" ->
            <<"message", "_search">> \o Colon \o Str(a.user) \o Colon \o Chars(a.q)
                \o Colon \o Str(a.limit)
      [] view = "get_recent_messages" ->
            <<"recent_messages">> \o Colon \o Str(a.user) \o Colon \o Str(a.limit)
      [] view = "search_users" ->
            <<"user", "_search">> \o Colon \o Chars(a.q) \o Colon \o Str(a.limit)
      [] view = "get_online_users" -> <<"online", "_users">>

\* what the view's query of the source of truth gives, as the value cached
ViewValue(view, a, d) ==
    CASE view = "get_conversation_messages" ->
            DictsOf(ConversationQuery(d, a.user, a.b, a.limit, a.offset))
      [] view = "get_user_messages" -> DictsOf(UserMessagesQuery(d, a.user, a.limit, a.offset))
      [] view = "get_unread_count" -> PyInt(UnreadCountQuery(d, a.user))
      [] view = "get_conversation_partners" -> PyList(PartnersQuery(d, a.user))
      [] view = "search_messages" -> DictsOf(SearchQuery(d, a.user, a.q, a.limit))
      [] view = "get_recent_messages" -> DictsOf(RecentQuery(d, a.user, a.limit))
      [] view = "search_users" -> UserDictsOf(SearchUsersQuery(d, a.q, a.limit))
      [] view = "get_online_users" -> UserDictsOf(OnlineUsersQuery(d))

ViewTtl(view) ==
    CASE view = "get_conversation_messages" -> cache_conversation_ttl
      [] view = "get_user_messages" -> cache_message_ttl
      [] view = "get_unread_count" -> unread_count_ttl
      [] view = "get_conversation_partners" -> cache_conversation_ttl
      [] view = "search_messages" -> cache_message_ttl
      [] view = "get_recent_messages" -> recent_messages_ttl
      [] view = "search_users" -> cache_user_ttl
      [] view = "get_online_users" -> online_users_ttl

\* the test that takes the cached value for a hit
ViewHit(view, cached) ==
    IF view = "get_unread_count" THEN cached # PyNone ELSE Truthy(cached)

\* DirectMessage(**data) and User(**data) of a cached dict, which holds the
\* "_sa_instance_state" text among its keys: the mapped class's constructor
\* is not part of this repository; it either builds an object that no
\* session holds or rejects the keyword with a TypeError.
Rebuilds(data) == IF data.t = "dict" THEN {"transient", "TypeError"} ELSE {"same"}

\* the views that rebuild the cached dicts: all but the count and the
\* partner list; the outcomes of rebuilding every element of the list
ViewRebuilds(view, cached) ==
    IF view \in {"get_unread_count", "get_conversation_partners"} THEN {"same"}
    ELSE IF \E i \in 1..Len(cached.items) : cached.items[i].t = "dict"
         THEN {"transient", "TypeError"} ELSE {"same"}

SearchLimit == 20
RecentLimit == 10
Queries == {"h"}

StartGetConversationMessages(p) ==
    /\ \E u1 \in UserIds, u2 \in UserIds, l \in Limits, o \in Offsets :
           Begin(p, "get_conversation_messages",
                 [NoArgs EXCEPT !.user = u1, !.b = u2, !.limit = l, !.offset = o], "rt_get")
    /\ UNCHANGED <<varsKeys, varsStore, db, loc, fresh, lastSet, committed, deleted>>

StartGetUserMessages(p) ==
    /\ \E u \in UserIds, l \in Limits, o \in Offsets :
           Begin(p, "get_user_messages",
                 [NoArgs EXCEPT !.user = u, !.limit = l, !.offset = o], "rt_get")
    /\ UNCHANGED <<varsKeys, varsStore, db, loc, fresh, lastSet, committed, deleted>>

StartGetUnreadCount(p) ==
    /\ \E u \in UserIds : Begin(p, "get_unread_count", [NoArgs EXCEPT !.user = u], "rt_get")
    /\ UNCHANGED <<varsKeys, varsStore, db, loc, fresh, lastSet, committed, deleted>>

StartGetConversationPartners(p) ==
    /\ \E u \in UserIds :
           Begin(p, "get_conversation_partners", [NoArgs EXCEPT !.user = u], "rt_get")
    /\ UNCHANGED <<varsKeys, varsStore, db, loc, fresh, lastSet, committed, deleted>>

StartSearchMessages(p) ==
    /\ \E u \in UserIds, q \in Queries :
           Begin(p, "search_messages",
                 [NoArgs EXCEPT !.user = u, !.q = q, !.limit = SearchLimit], "rt_get")
    /\ UNCHANGED <<varsKeys, varsStore, db, loc, fresh, lastSet, committed, deleted>>

StartGetRecentMessages(p) ==
    /\ \E u \in UserIds :
           Begin(p, "get_recent_messages",
                 [NoArgs EXCEPT !.user = u, !.limit = RecentLimit], "rt_get")
    /\ UNCHANGED <<varsKeys, varsStore, db, loc, fresh, lastSet, committed, deleted>>

\* a view asks the cache first
ReadThroughGet(p) ==
    /\ pc[p] = "rt_get"
    /\ \E cmdOk \in CmdOutcomes :
         LET k == ViewKey(op[p], args[p])
             r == CacheService_get(Avail, cmdOk, redis, k)
         IN /\ hist' = [hist EXCEPT ![p] =
                          [Seen(@, Avail, cmdOk) EXCEPT !.present = k \in DOMAIN redis,
                                                       !.answered = Avail /\ cmdOk]]
            /\ IF ViewHit(op[p], r.value)
               THEN /\ \E built \in ViewRebuilds(op[p], r.value) :
                         IF built = "TypeError"
                         THEN /\ raised' = [raised EXCEPT ![p] = "TypeError"]
                              /\ UNCHANGED result
                         ELSE /\ result' = [result EXCEPT ![p] = r.value]
                              /\ UNCHANGED raised
                    /\ pc' = [pc EXCEPT ![p] = "done"]
               ELSE /\ UNCHANGED <<result, raised>>
                    /\ pc' = [pc EXCEPT ![p] = "rt_query"]
    /\ UNCHANGED <<varsKeys, varsStore, db, op, args, loc, nreq, fresh, lastSet, committed, deleted>>

\* on a miss it queries the source of truth
ReadThroughQuery(p) ==
    /\ pc[p] = "rt_query"
    /\ LET v == ViewValue(op[p], args[p], db)
       IN /\ result' = [result EXCEPT ![p] = v]
          /\ loc' = [loc EXCEPT ![p].sets =
                        <<[key |-> ViewKey(op[p], args[p]), value |-> v,
                           ttl |-> ViewTtl(op[p]), kind |-> "read_through"]>>,
                                ![p].afterSets = "done"]
    /\ hist' = [hist EXCEPT ![p].calls = @ + 1]
    /\ pc' = [pc EXCEPT ![p] = "sets"]
    /\ UNCHANGED <<varsKeys, varsStore, db, op, args, raised, nreq, fresh, lastSet, committed, deleted>>

\* cache_service.set of the next entry a method writes; an exception of
\* set would end the method
QueuedSet(p) ==
    /\ pc[p] = "sets"
    /\ \E cmdOk \in CmdOutcomes :
         LET e == Head(loc[p].sets)
             rest == Tail(loc[p].sets)
         IN /\ redis' = CacheService_set_store(Avail, cmdOk, redis, e.key, e.value,
                                                  PyInt(e.ttl), "json")
            /\ hist' = [hist EXCEPT ![p] =
                          [Seen(@, Avail, cmdOk) EXCEPT !.trace = Append(@, e.kind)]]
            /\ fresh' = FreshAfterSet(e.key, e.value, set_stores(Avail, cmdOk))
            /\ UNCHANGED lastSet
            /\ deleted' = IF set_stores(Avail, cmdOk) THEN Without(deleted, {e.key}) ELSE deleted
            /\ loc' = [loc EXCEPT ![p].sets = rest]
            /\ LET r == CacheService_set(Avail, cmdOk)
               IN /\ raised' = [raised EXCEPT ![p] = r.raised]
                  /\ pc' = [pc EXCEPT ![p] = IF r.raised # "" THEN "done"
                                             ELSE IF rest = <<>> THEN loc[p].afterSets
                                             ELSE "sets"]
    /\ UNCHANGED <<varsKeys, cacheEnabled, started, connected, storeUp, flaky, db, op, args,
                   result, nreq, committed>>

-----------------------------------------------------------------------------
(* MessageService.create_message *)

StartCreateMessage(p) ==
    /\ \E s \in UserIds, r \in UserIds, c \in Contents :
           Begin(p, "create_message", [NoArgs EXCEPT !.user = s, !.b = r, !.q = c], "cm_commit")
    /\ UNCHANGED <<varsKeys, varsStore, db, loc, fresh, lastSet, committed, deleted>>

\* db.add, db.commit, db.refresh; then the own entry is written and the
\* invalidation runs
CreateMessageCommit(p) ==
    /\ pc[p] = "cm_commit"
    /\ LET row == NewMessageRow(db, args[p].user, args[p].b, args[p].q)
           obj == MessageDict(row)
       IN /\ db' = InsertMessage(db, row)
          /\ committed' = committed \cup {JsonDumps(obj)}
          /\ result' = [result EXCEPT ![p] = obj]
          /\ loc' = [loc EXCEPT ![p] =
                [NoLoc EXCEPT !.obj = obj, !.attached = TRUE,
                    !.sets = <<[key |-> CacheKeys_message(row.id), value |-> obj,
                                ttl |-> cache_message_ttl, kind |-> "refresh"]>>,
                    !.afterSets = "dp_keys",
                    !.patterns = invalidate_message_cache(row.id, args[p].user, args[p].b),
                    !.ret = "done"]]
    /\ hist' = [hist EXCEPT ![p].trace = Append(@, "commit")]
    /\ pc' = [pc EXCEPT ![p] = "sets"]
    /\ UNCHANGED <<varsKeys, varsStore, op, args, raised, nreq, fresh, lastSet, deleted>>

-----------------------------------------------------------------------------
(* The views and create_message, one request after the other, on a store   *)
(* that answers                                                            *)

InitInval ==
    /\ KeysIdle
    /\ cacheEnabled = TRUE
    /\ storeUp = TRUE
    /\ flaky = FALSE
    /\ StoreNew
    /\ db = SeedDb
    /\ ProcsIdle

NextInval ==
    \/ Startup
    \/ \E p \in Clients :
         \/ StartGetConversationMessages(p)
         \/ StartGetUserMessages(p)
         \/ StartGetUnreadCount(p)
         \/ StartGetConversationPartners(p)
         \/ StartSearchMessages(p)
         \/ StartGetRecentMessages(p)
         \/ StartCreateMessage(p)
         \/ ReadThroughGet(p)
         \/ ReadThroughQuery(p)
         \/ QueuedSet(p)
         \/ CreateMessageCommit(p)
         \/ DeletePatternKeys(p)
         \/ DeletePatternDel(p)
         \/ Finish(p)

SpecInval == InitInval /\ [][NextInval]_vars

-----------------------------------------------------------------------------
(* MessageService.get_message_by_id and mark_message_as_read.  The service *)
(* calls the session's synchronous API: what runs between two awaits of a  *)
(* cache call is one step.                                                 *)

\* the ids a request can name: the messages sent so far and one more
MessageIds(d) == 1..d.nextMsgId

StartGetMessageById(p) ==
    /\ \E id \in MessageIds(db) :
           Begin(p, "get_message_by_id", [NoArgs EXCEPT !.id = id], "gm_get")
    /\ loc' = [loc EXCEPT ![p] = [NoLoc EXCEPT !.afterGet = "gm_ret"]]
    /\ UNCHANGED <<varsKeys, varsStore, db, fresh, lastSet, committed, deleted>>

StartMarkRead(p) ==
    /\ \E id \in MessageIds(db), u \in UserIds :
           Begin(p, "mark_message_as_read", [NoArgs EXCEPT !.id = id, !.user = u], "gm_get")
    /\ loc' = [loc EXCEPT ![p] = [NoLoc EXCEPT !.afterGet = "mr_commit"]]
    /\ UNCHANGED <<varsKeys, varsStore, db, fresh, lastSet, committed, deleted>>

\* get_message_by_id: the cache first; a hit is rebuilt from the dict
GetMessageGet(p) ==
    /\ pc[p] = "gm_get"
    /\ \E cmdOk \in CmdOutcomes :
         LET k == CacheKeys_message(args[p].id)
             r == CacheService_get(Avail, cmdOk, redis, k)
         IN /\ hist' = [hist EXCEPT ![p] =
                          [Seen(@, Avail, cmdOk) EXCEPT !.present = k \in DOMAIN redis,
                                                       !.answered = Avail /\ cmdOk]]
            /\ IF Truthy(r.value)
               THEN \E built \in Rebuilds(r.value) :
                      IF built = "TypeError"
                      THEN /\ raised' = [raised EXCEPT ![p] = "TypeError"]
                           /\ pc' = [pc EXCEPT ![p] = "done"]
                           /\ UNCHANGED loc
                      ELSE /\ loc' = [loc EXCEPT ![p].obj = r.value, ![p].attached = FALSE]
                           /\ pc' = [pc EXCEPT ![p] = loc[p].afterGet]
                           /\ UNCHANGED raised
               ELSE /\ pc' = [pc EXCEPT ![p] = "gm_query"]
                    /\ UNCHANGED <<loc, raised>>
    /\ UNCHANGED <<varsKeys, varsStore, db, op, args, result, nreq, fresh, lastSet, committed, deleted>>

\* get_message_by_id: the query on a miss; a row found is cached
GetMessageQuery(p) ==
    /\ pc[p] = "gm_query"
    /\ IF HasMessage(db, args[p].id)
       THEN LET obj == MessageDict(MessageById(db, args[p].id))
            IN /\ loc' = [loc EXCEPT ![p].obj = obj, ![p].attached = TRUE,
                              ![p].sets = <<[key |-> CacheKeys_message(args[p].id),
                                             value |-> obj, ttl |-> cache_message_ttl,
                                             kind |-> "read_through"]>>,
                              ![p].afterSets = loc[p].afterGet]
               /\ pc' = [pc EXCEPT ![p] = "sets"]
       ELSE /\ loc' = [loc EXCEPT ![p].obj = PyNone, ![p].attached = FALSE]
            /\ pc' = [pc EXCEPT ![p] = loc[p].afterGet]
    /\ hist' = [hist EXCEPT ![p].calls = @ + 1]
    /\ UNCHANGED <<varsKeys, varsStore, db, op, args, result, raised, nreq, fresh, lastSet,
                   committed, deleted>>

GetMessageReturn(p) ==
    /\ pc[p] = "gm_ret"
    /\ result' = [result EXCEPT ![p] = loc[p].obj]
    /\ pc' = [pc EXCEPT ![p] = "done"]
    /\ UNCHANGED <<varsKeys, varsStore, db, op, args, loc, raised, nreq, varsHist>>

\* mark_message_as_read after get_message_by_id: the two early returns,
\* else is_read = 1, db.commit(), then the own entry and the invalidation
MarkReadCommit(p) ==
    /\ pc[p] = "mr_commit"
    /\ LET message == loc[p].obj
       IN IF message = PyNone \/ DictGet(message, "recipient_id") # PyInt(args[p].user)
          THEN /\ result' = [result EXCEPT ![p] = PyBool(FALSE)]
               /\ pc' = [pc EXCEPT ![p] = "done"]
               /\ UNCHANGED <<db, loc, hist, committed>>
          ELSE LET marked == DictSet(message, "is_read", PyInt(1))
                   d2 == IF loc[p].attached THEN CommitRead(db, args[p].id)
                         ELSE CommitDetached(db, args[p].id)
               IN /\ db' = d2
                  /\ committed' = IF loc[p].attached
                                  THEN committed \cup {JsonDumps(MessageDict(MessageById(d2, args[p].id)))}
                                  ELSE committed
                  /\ hist' = [hist EXCEPT ![p].trace = Append(@, "commit")]
                  /\ loc' = [loc EXCEPT ![p].obj = marked,
                         ![p].sets = <<[key |-> CacheKeys_message(args[p].id), value |-> marked,
                                        ttl |-> cache_message_ttl, kind |-> "refresh"]>>,
                         ![p].afterSets = "dp_keys",
                         ![p].patterns = invalidate_conversation_cache(
                                             DictGet(marked, "sender_id").n,
                                             DictGet(marked, "recipient_id").n),
                         ![p].ret = "done"]
                  /\ result' = [result EXCEPT ![p] = PyBool(TRUE)]
                  /\ pc' = [pc EXCEPT ![p] = "sets"]
    /\ UNCHANGED <<varsKeys, varsStore, op, args, raised, nreq, fresh, lastSet, deleted>>

-----------------------------------------------------------------------------
(* UserService.create_user and update_user *)

CacheKeys_user_by_username(username) == <<"user", "_username">> \o Colon \o Chars(username)

CacheKeys_user_by_email(email) == <<"user", "_email">> \o Colon \o Chars(email)

\* the three entries create_user and update_user write for a user
UserEntries(row) ==
    LET obj == UserDict(row)
    IN << [key |-> CacheKeys_user_profile(row.id), value |-> obj,
           ttl |-> cache_user_ttl, kind |-> "refresh"],
          [key |-> CacheKeys_user_by_username(row.username), value |-> obj,
           ttl |-> cache_user_ttl, kind |-> "refresh"],
          [key |-> CacheKeys_user_by_email(row.email), value |-> obj,
           ttl |-> cache_user_ttl, kind |-> "refresh"] >>

\* the unique indexes on username and email
TakenNever(d, except, username, email) == FALSE

Taken(d, except, username, email) ==
    \E i \in DOMAIN d.users :
        i # except /\ (d.users[i].username = username \/ d.users[i].email = email)

\* a registration names a registered user's name and address or the next
\* ones of the pool
StartCreateUser(p) ==
    /\ \E i \in {1, Len(db.users) + 1} :
           /\ i <= Len(NamePool)
           /\ Begin(p, "create_user", [NoArgs EXCEPT !.a = i, !.b = i], "cu_commit")
    /\ UNCHANGED <<varsKeys, varsStore, db, loc, fresh, lastSet, committed, deleted>>

\* db.add, db.commit (the unique indexes can refuse it), db.refresh
CreateUserCommit(p) ==
    /\ pc[p] = "cu_commit"
    /\ LET row == UserRow(Len(db.users) + 1, NamePool[args[p].a], EmailPool[args[p].b])
       IN IF Taken(db, 0, row.username, row.email)
          THEN /\ raised' = [raised EXCEPT ![p] = "IntegrityError"]
               /\ pc' = [pc EXCEPT ![p] = "done"]
               /\ UNCHANGED <<db, loc, result, hist, committed>>
          ELSE /\ db' = [db EXCEPT !.users = Append(@, row)]
               /\ committed' = committed \cup {JsonDumps(UserDict(row))}
               /\ hist' = [hist EXCEPT ![p].trace = Append(@, "commit")]
               /\ loc' = [loc EXCEPT ![p] =
                            [NoLoc EXCEPT !.sets = UserEntries(row), !.afterSets = "done"]]
               /\ result' = [result EXCEPT ![p] = UserDict(row)]
               /\ pc' = [pc EXCEPT ![p] = "sets"]
               /\ UNCHANGED raised
    /\ UNCHANGED <<varsKeys, varsStore, op, args, nreq, fresh, lastSet, deleted>>

\* the keyword arguments of update_user
Kwargs == {[field |-> "display_name", text |-> "al"], [field |-> "username", text |-> "zed"]}

SetAttr(row, field, text) ==
    IF field = "username" THEN [row EXCEPT !.username = text]
    ELSE IF field = "email" THEN [row EXCEPT !.email = text]
    ELSE [row EXCEPT !.display_name = text]

StartUpdateUser(p) ==
    /\ \E u \in 1..(Len(db.users) + 1), kw \in Kwargs :
           Begin(p, "update_user",
                 [NoArgs EXCEPT !.user = u, !.q = kw.field, !.value = PyStr(kw.text)],
                 "uu_commit")
    /\ UNCHANGED <<varsKeys, varsStore, db, loc, fresh, lastSet, committed, deleted>>

\* update_user(user_id, email=...)
StartUpdateUserEmail(p) ==
    /\ \E u \in 1..(Len(db.users) + 1) :
           Begin(p, "update_user",
                 [NoArgs EXCEPT !.user = u, !.q = "email", !.value = PyStr("zed@x")],
                 "uu_commit")
    /\ UNCHANGED <<varsKeys, varsStore, db, loc, fresh, lastSet, committed, deleted>>

\* the query, the setattr loop, db.commit and db.refresh; then the
\* invalidation runs and the three entries are written after it
UpdateUserCommit(p) ==
    /\ pc[p] = "uu_commit"
    /\ IF args[p].user \notin DOMAIN db.users
       THEN /\ result' = [result EXCEPT ![p] = PyNone]
            /\ pc' = [pc EXCEPT ![p] = "done"]
            /\ UNCHANGED <<db, loc, raised, hist, committed>>
       ELSE LET row == SetAttr(db.users[args[p].user], args[p].q, args[p].value.s)
            IN IF Taken(db, row.id, row.username, row.email)
               THEN /\ raised' = [raised EXCEPT ![p] = "IntegrityError"]
                    /\ pc' = [pc EXCEPT ![p] = "done"]
                    /\ UNCHANGED <<db, loc, result, hist, committed>>
               ELSE /\ db' = [db EXCEPT !.users[row.id] = row]
                    /\ committed' = committed \cup {JsonDumps(UserDict(row))}
                    /\ hist' = [hist EXCEPT ![p].trace = Append(@, "commit")]
                    /\ loc' = [loc EXCEPT ![p] =
                                 [NoLoc EXCEPT !.patterns = invalidate_user_cache(row.id),
                                               !.ret = "sets",
                                               !.sets = UserEntries(row),
                                               !.afterSets = "done"]]
                    /\ result' = [result EXCEPT ![p] = UserDict(row)]
                    /\ pc' = [pc EXCEPT ![p] = "dp_keys"]
                    /\ UNCHANGED raised
    /\ UNCHANGED <<varsKeys, varsStore, op, args, nreq, fresh, lastSet, deleted>>

-----------------------------------------------------------------------------
(* The write operations of the two services, one request after the other *)

InitWrite ==
    /\ KeysIdle
    /\ cacheEnabled = TRUE
    /\ storeUp = TRUE
    /\ flaky = FALSE
    /\ StoreNew
    /\ db = SeedDb
    /\ ProcsIdle

NextWrite ==
    \/ Startup
    \/ \E p \in Clients :
         \/ StartCreateUser(p)
         \/ StartUpdateUser(p)
         \/ StartUpdateUserEmail(p)
         \/ StartCreateMessage(p)
         \/ StartMarkRead(p)
         \/ StartGetMessageById(p)
         \/ CreateUserCommit(p)
         \/ UpdateUserCommit(p)
         \/ CreateMessageCommit(p)
         \/ GetMessageGet(p)
         \/ GetMessageQuery(p)
         \/ GetMessageReturn(p)
         \/ MarkReadCommit(p)
         \/ QueuedSet(p)
         \/ DeletePatternKeys(p)
         \/ DeletePatternDel(p)
         \/ Finish(p)

SpecWrite == InitWrite /\ [][NextWrite]_vars

-----------------------------------------------------------------------------
(* The message operations from concurrent requests: the steps of the       *)
(* requests interleave at every cache call                                 *)

NextRace ==
    \/ Startup
    \/ \E p \in Procs :
         \/ StartCreateMessage(p)
         \/ StartMarkRead(p)
         \/ StartGetMessageById(p)
         \/ CreateMessageCommit(p)
         \/ GetMessageGet(p)
         \/ GetMessageQuery(p)
         \/ GetMessageReturn(p)
         \/ MarkReadCommit(p)
         \/ QueuedSet(p)
         \/ DeletePatternKeys(p)
         \/ DeletePatternDel(p)
         \/ Finish(p)

SpecRace == InitWrite /\ [][NextRace]_vars

-----------------------------------------------------------------------------
(* Invalidation on message creation *)

\* create_message completed, every probe found the store, no command
\* failed and no other request ran meanwhile
CreatedQuietly(p) ==
    /\ Done(p, "create_message")
    /\ hist[p].probes = {TRUE}
    /\ ~hist[p].cmdFailed
    /\ ~hist[p].overlap

ConversationPages(s, r) ==
    {CacheKeys_conversation_messages(s, r, l, o) : l \in Limits, o \in Offsets}

MyMessagesPages(u) == {CacheKeys_user_messages(u, l, o) : l \in Limits, o \in Offsets}

\* C7: after the invalidation of a created message (sender s, recipient r)
\* completes with the store available, no conversation page of the pair
\* and no my-messages page of s or of r is populated, whatever its limit
\* and offset.
C7_PagesPurgedOnMessageCreated ==
    \A p \in Procs :
        CreatedQuietly(p) =>
            (ConversationPages(args[p].user, args[p].b)
                \cup MyMessagesPages(args[p].user) \cup MyMessagesPages(args[p].b))
              \cap DOMAIN redis = {}

\* a conversation page and a my-messages page were populated when the
\* request started, asked in the order recipient, sender
C7_Witness ==
    \E p \in Procs :
        /\ CreatedQuietly(p)
        /\ args[p].user > args[p].b
        /\ hist[p].pre \cap ConversationPages(args[p].b, args[p].user) # {}
        /\ hist[p].pre \cap (MyMessagesPages(args[p].user) \cup MyMessagesPages(args[p].b)) # {}
        /\ ConversationPages(args[p].user, args[p].b) \cap DOMAIN redis = {}

\* the derived views that embed messages of the sender s or the recipient r
DerivedViews(s, r) ==
    {[view |-> "get_conversation_messages",
      a |-> [NoArgs EXCEPT !.user = s, !.b = r, !.limit = l, !.offset = o]] :
         l \in Limits, o \in Offsets}
    \cup {[view |-> "get_user_messages",
           a |-> [NoArgs EXCEPT !.user = u, !.limit = l, !.offset = o]] :
              u \in {s, r}, l \in Limits, o \in Offsets}
    \cup {[view |-> "get_unread_count", a |-> [NoArgs EXCEPT !.user = r]]}
    \cup {[view |-> "get_conversation_partners", a |-> [NoArgs EXCEPT !.user = u]] :
              u \in {s, r}}
    \cup {[view |-> "get_recent_messages",
           a |-> [NoArgs EXCEPT !.user = u, !.limit = RecentLimit]] : u \in {s, r}}
    \cup {[view |-> "search_messages",
           a |-> [NoArgs EXCEPT !.user = u, !.q = q, !.limit = SearchLimit]] :
              u \in {s, r}, q \in Queries}

\* C8: after create_message(sender s, recipient r) completes with the store
\* available and no concurrent operation, no derived view of s or r that
\* was populated before the write (conversation pages, my-messages pages,
\* unread count of r, partner lists, recent messages, search results)
\* still holds a value that the write made out of date.
C8_FanOutCompleteOnCreate ==
    \A p \in Procs :
        CreatedQuietly(p) =>
            \A v \in DerivedViews(args[p].user, args[p].b) :
                LET k == ViewKey(v.view, v.a)
                IN k \in hist[p].pre /\ k \in DOMAIN redis =>
                       redis[k].val = Serialize(ViewValue(v.view, v.a, db), "json")

-----------------------------------------------------------------------------
(* Order of the steps of a write operation *)

WriteOps == {"create_user", "update_user", "create_message", "mark_message_as_read"}

\* C9: in create_user, update_user, create_message and mark_message_as_read
\* the commit comes first, then the writes of the own entries, then the
\* invalidation: no invalidation step precedes a write of an own entry or
\* the commit, and no write of an own entry precedes the commit.
C9_CommitRefreshInvalidateOrder ==
    \A p \in Procs :
        op[p] \in WriteOps =>
            \A i \in 1..Len(hist[p].trace), j \in 1..Len(hist[p].trace) :
                i < j =>
                    /\ ~(hist[p].trace[i] = "invalidate"
                            /\ hist[p].trace[j] \in {"refresh", "commit"})
                    /\ ~(hist[p].trace[i] = "refresh" /\ hist[p].trace[j] = "commit")

-----------------------------------------------------------------------------
(* Own entries and the source of truth *)

OwnKeys ==
    {CacheKeys_message(i) : i \in 1..MaxRequests}
        \cup {CacheKeys_user_profile(u) : u \in 1..Len(NamePool)}

-----------------------------------------------------------------------------
(* get_or_set from concurrent callers on one key.  The awaits of a call    *)
(* are its get, the producer and its set; the event loop runs every call   *)
(* that can continue.                                                      *)

RaceKey == CacheKeys_message(1)

RaceValues == {PyNone, PyInt(1), PyInt(2)}

StartRacingGetOrSet(p) ==
    /\ \E v \in RaceValues :
           Begin(p, "get_or_set", [NoArgs EXCEPT !.key = RaceKey, !.pval = v, !.pok = TRUE],
                 "gos_get")
    /\ UNCHANGED <<varsKeys, varsStore, db, loc, fresh, lastSet, committed, deleted>>

GetOrSetStep(p) == GetOrSetGet(p) \/ GetOrSetFunc(p) \/ GetOrSetSet(p)

NextGos ==
    \/ Startup
    \/ \E p \in Procs :
         \/ StartRacingGetOrSet(p)
         \/ GetOrSetGet(p)
         \/ GetOrSetFunc(p)
         \/ GetOrSetSet(p)
         \/ Finish(p)

SpecGos ==
    /\ InitInval
    /\ [][NextGos]_vars
    /\ \A p \in Procs : WF_vars(GetOrSetStep(p))

InGetOrSet(p) == op[p] = "get_or_set" /\ pc[p] \in {"gos_get", "gos_func", "gos_set"}

\* what holds of the calls that have returned and of the entry
GosReturnsAndLastWriteWins ==
    /\ \A p \in Procs :
           Done(p, "get_or_set") =>
               /\ raised[p] = ""
               /\ hist[p].calls = 1 => result[p] = args[p].pval
               /\ hist[p].calls = 0 => result[p] = hist[p].expected /\ result[p] # PyNone
    /\ \A p \in Procs :
           Done(p, "get_or_set") /\ hist[p].lastWriter =>
               /\ RaceKey \in DOMAIN redis
               /\ redis[RaceKey].val = Serialize(args[p].pval, "json")

\* C11: concurrent get_or_set calls on the same cold key, under every
\* interleaving of their get, producer and set steps, all terminate (none
\* waits for another), each returns a producer result (its own producer's,
\* or the cached one of the other call), and the value stored is the value
\* of the call whose set ran last.
C11_ConcurrentGetOrSetLastWriteWins ==
    /\ [](GosReturnsAndLastWriteWins)
    /\ \A p \in Procs : InGetOrSet(p) ~> pc[p] = "done"

\* both calls found the key cold, both ran their producer with different
\* values, both returned, and the entry holds the value of the later set
C11_Witness ==
    \E p \in Procs, q \in Procs :
        /\ p # q
        /\ Done(p, "get_or_set") /\ Done(q, "get_or_set")
        /\ ~hist[p].present /\ ~hist[q].present
        /\ hist[p].calls = 1 /\ hist[q].calls = 1
        /\ args[p].pval # args[q].pval
        /\ hist[p].lastWriter /\ ~hist[q].lastWriter
        /\ redis[RaceKey].val = Serialize(args[p].pval, "json")

-----------------------------------------------------------------------------
(* Expiry.  The store counts the seconds of every entry and drops it when  *)
(* its ttl is reached.  Time passes up to the next expiry, or by one       *)
(* second after a set with a ttl argument of at most MaxTtl seconds; the   *)
(* seconds since a set are counted up to MaxAge.                           *)

MaxAge == MaxTtl + 1

Remaining(entry) == entry.ttl - entry.age

TickSteps ==
    (IF \E k \in DOMAIN lastSet :
            lastSet[k].age < MaxAge /\ lastSet[k].ttl.t = "int" /\ lastSet[k].ttl.n <= MaxTtl
     THEN {1} ELSE {})
        \cup {Remaining(redis[k]) : k \in DOMAIN redis}

Tick ==
    \E d \in TickSteps :
        LET live == {k \in DOMAIN redis : redis[k].age + d < redis[k].ttl}
        IN /\ redis' = [k \in live |-> [redis[k] EXCEPT !.age = @ + d]]
           /\ fresh' = Without(fresh, (DOMAIN redis) \ live)
           /\ lastSet' = [k \in DOMAIN lastSet |->
                            [lastSet[k] EXCEPT !.age = IF @ + d < MaxAge THEN @ + d ELSE MaxAge]]
           /\ UNCHANGED <<kArgs, kKey, kKeyRev, cacheEnabled, started, connected, storeUp, flaky,
                          db, varsProc, hist, committed, deleted>>

NextTtl ==
    \/ Startup
    \/ Tick
    \/ \E p \in Clients :
         \/ StartSet(p)
         \/ StartGet(p)
         \/ CacheSet(p)
         \/ CacheGet(p)
         \/ Finish(p)

SpecTtl == InitInval /\ [][NextTtl]_vars

\* C12: once the ttl given to set(k, v, ttl) has elapsed with no later set
\* of k, get(k) returns None, for every key and every ttl.
C12_NoReadPastExpiry ==
    \A p \in Procs : Done(p, "get") /\ hist[p].elapsed => result[p] = PyNone

-----------------------------------------------------------------------------
(* Stale entries and expiry: views and create_message on a store that can  *)
(* stop answering while an invalidation runs; the store's clock runs on.   *)

\* get_user_messages(user_id) with the default limit and offset
StartGetUserMessagesDefault(p) ==
    /\ \E u \in UserIds :
           Begin(p, "get_user_messages",
                 [NoArgs EXCEPT !.user = u, !.limit = DefaultLimit, !.offset = 0], "rt_get")
    /\ UNCHANGED <<varsKeys, varsStore, db, loc, fresh, lastSet, committed, deleted>>

NextStale ==
    \/ Startup
    \/ StoreFail
    \/ StoreRecover
    \/ Tick
    \/ \E p \in Clients :
         \/ StartGetUserMessagesDefault(p)
         \/ StartGetUnreadCount(p)
         \/ StartCreateMessage(p)
         \/ ReadThroughGet(p)
         \/ ReadThroughQuery(p)
         \/ QueuedSet(p)
         \/ CreateMessageCommit(p)
         \/ DeletePatternKeys(p)
         \/ DeletePatternDel(p)
         \/ Finish(p)

SpecStale == InitInval /\ [][NextStale]_vars /\ WF_vars(Tick)

\* the views the requests above populate
StaleViews ==
    {[view |-> "get_user_messages",
      a |-> [NoArgs EXCEPT !.user = u, !.limit = DefaultLimit, !.offset = 0]] : u \in UserIds}
    \cup {[view |-> "get_unread_count", a |-> [NoArgs EXCEPT !.user = u]] : u \in UserIds}

\* the entry of the view differs from what the source of truth gives now
Stale(v) ==
    /\ ViewKey(v.view, v.a) \in DOMAIN redis
    /\ redis[ViewKey(v.view, v.a)].val # Serialize(ViewValue(v.view, v.a, db), "json")

\* C13: every entry the services write has a finite positive ttl, and with
\* the store's clock running every entry that differs from the source of
\* truth is eventually absent or up to date again, also when the purge that
\* should have removed it was a no-op on an unavailable store.
C13_StaleEntriesExpire ==
    /\ [](\A k \in DOMAIN redis : redis[k].ttl >= 1)
    /\ \A v \in StaleViews : Stale(v) ~> ~Stale(v)

\* create_message has returned, its purge met an unavailable store, and a
\* my-messages page written before it is still in the store and out of date
C13_Witness ==
    \E p \in Procs :
        /\ Done(p, "create_message")
        /\ FALSE \in hist[p].probes
        /\ \E v \in StaleViews :
               /\ v.view = "get_user_messages"
               /\ ViewKey(v.view, v.a) \in hist[p].pre
               /\ Stale(v)

-----------------------------------------------------------------------------
(* Invalidation on mark_message_as_read: the views that show read state,   *)
(* create_message and mark_message_as_read, one request after the other    *)

NextRead ==
    \/ Startup
    \/ \E p \in Clients :
         \/ StartCreateMessage(p)
         \/ StartGetConversationMessages(p)
         \/ StartGetUnreadCount(p)
         \/ StartGetConversationPartners(p)
         \/ StartMarkRead(p)
         \/ CreateMessageCommit(p)
         \/ ReadThroughGet(p)
         \/ ReadThroughQuery(p)
         \/ GetMessageGet(p)
         \/ GetMessageQuery(p)
         \/ MarkReadCommit(p)
         \/ QueuedSet(p)
         \/ DeletePatternKeys(p)
         \/ DeletePatternDel(p)
         \/ Finish(p)

SpecRead == InitInval /\ [][NextRead]_vars

\* mark_message_as_read returned True and every cache call of it was answered
MarkedQuietly(p) ==
    /\ Done(p, "mark_message_as_read")
    /\ result[p] = PyBool(TRUE)
    /\ hist[p].probes = {TRUE}
    /\ ~hist[p].cmdFailed

\* C14: after mark_message_as_read succeeds for a message from s to r with
\* the store available, no conversation page of the pair is populated, and
\* neither is the unread count of r nor the conversation-partner list of r.
C14_ReadStateViewsPurgedOnMarkRead ==
    \A p \in Procs :
        MarkedQuietly(p) =>
            LET s == DictGet(loc[p].obj, "sender_id").n
                r == DictGet(loc[p].obj, "recipient_id").n
            IN /\ ConversationPages(s, r) \cap DOMAIN redis = {}
               /\ ViewKey("get_unread_count", [NoArgs EXCEPT !.user = r]) \notin DOMAIN redis
               /\ ViewKey("get_conversation_partners", [NoArgs EXCEPT !.user = r])
                      \notin DOMAIN redis

-----------------------------------------------------------------------------
(* CacheInvalidation.invalidate_user_cache against the keys the services   *)
(* write for a user                                                        *)

StartInvalidateUserCache(p) ==
    /\ \E u \in DOMAIN db.users :
           /\ Begin(p, "invalidate_user_cache", [NoArgs EXCEPT !.user = u], "dp_keys")
           /\ loc' = [loc EXCEPT ![p] =
                        [NoLoc EXCEPT !.patterns = invalidate_user_cache(u), !.ret = "done"]]
    /\ UNCHANGED <<varsKeys, varsStore, db, fresh, lastSet, committed, deleted>>

NextPurge ==
    \/ Startup
    \/ \E p \in Clients :
         \/ StartCreateUser(p)
         \/ StartGetUserMessagesDefault(p)
         \/ StartGetUnreadCount(p)
         \/ StartGetConversationPartners(p)
         \/ StartInvalidateUserCache(p)
         \/ CreateUserCommit(p)
         \/ ReadThroughGet(p)
         \/ ReadThroughQuery(p)
         \/ QueuedSet(p)
         \/ DeletePatternKeys(p)
         \/ DeletePatternDel(p)
         \/ Finish(p)

SpecPurge == InitWrite /\ [][NextPurge]_vars

\* the colon-delimited segments of a key
RECURSIVE Segments(_, _)
Segments(key, seg) ==
    IF key = <<>> THEN {seg}
    ELSE IF Head(key) = ":" THEN {seg} \cup Segments(Tail(key), <<>>)
    ELSE Segments(Tail(key), Append(seg, Head(key)))

HasSegment(key, id) == Str(id) \in Segments(key, <<>>)

InvalidatedQuietly(p) ==
    /\ Done(p, "invalidate_user_cache")
    /\ hist[p].probes = {TRUE}
    /\ ~hist[p].cmdFailed

\* C15: after invalidate_user_cache(id) completes with the store available,
\* user_profile:{id} is absent and so is every key that has id as a
\* colon-delimited segment, keys whose last segment is id included.
C15_EveryKeyOfUserPurged ==
    \A p \in Procs :
        InvalidatedQuietly(p) =>
            /\ CacheKeys_user_profile(args[p].user) \notin DOMAIN redis
            /\ \A k \in DOMAIN redis : ~HasSegment(k, args[p].user)

-----------------------------------------------------------------------------
(* MessageService.delete_message *)

\* db.delete(message); db.commit()
DeleteRow(d, message_id) ==
    [d EXCEPT !.messages = SelectSeq(@, LAMBDA m : m.id # message_id)]

StartDeleteMessage(p) ==
    /\ \E id \in MessageIds(db), u \in UserIds :
           Begin(p, "delete_message", [NoArgs EXCEPT !.id = id, !.user = u], "gm_get")
    /\ loc' = [loc EXCEPT ![p] = [NoLoc EXCEPT !.afterGet = "dm_commit"]]
    /\ UNCHANGED <<varsKeys, varsStore, db, fresh, lastSet, committed, deleted>>

\* delete_message after get_message_by_id: the early return, else
\* db.delete and db.commit.  The session refuses to delete an object it
\* did not load (the one rebuilt from a cached dict).
DeleteMessageCommit(p) ==
    /\ pc[p] = "dm_commit"
    /\ LET message == loc[p].obj
       IN IF message = PyNone \/ DictGet(message, "sender_id") # PyInt(args[p].user)
          THEN /\ result' = [result EXCEPT ![p] = PyBool(FALSE)]
               /\ pc' = [pc EXCEPT ![p] = "done"]
               /\ UNCHANGED <<db, loc, hist, raised>>
          ELSE IF ~loc[p].attached
          THEN /\ raised' = [raised EXCEPT ![p] = "InvalidRequestError"]
               /\ pc' = [pc EXCEPT ![p] = "done"]
               /\ UNCHANGED <<db, loc, hist, result>>
          ELSE /\ db' = DeleteRow(db, args[p].id)
               /\ hist' = [hist EXCEPT ![p].trace = Append(@, "commit")]
               /\ loc' = [loc EXCEPT ![p].patterns =
                                         invalidate_message_cache(
                                             args[p].id,
                                             DictGet(message, "sender_id").n,
                                             DictGet(message, "recipient_id").n),
                                     ![p].ret = "done"]
               /\ result' = [result EXCEPT ![p] = PyBool(TRUE)]
               /\ pc' = [pc EXCEPT ![p] = "dm_delete"]
               /\ UNCHANGED raised
    /\ UNCHANGED <<varsKeys, varsStore, op, args, nreq, fresh, lastSet, committed, deleted>>

\* cache_service.delete(CacheKeys.message(message_id)), then the invalidation
DeleteMessageCacheDelete(p) ==
    /\ pc[p] = "dm_delete"
    /\ \E cmdOk \in CmdOutcomes :
         LET k == CacheKeys_message(args[p].id)
         IN /\ redis' = CacheService_delete_store(Avail, cmdOk, redis, k)
            /\ hist' = [hist EXCEPT ![p] =
                          [Seen(@, Avail, cmdOk) EXCEPT !.trace = Append(@, "invalidate")]]
            /\ fresh' = IF Avail /\ cmdOk THEN Without(fresh, {k}) ELSE fresh
            /\ lastSet' = IF Avail /\ cmdOk THEN Without(lastSet, {k}) ELSE lastSet
            /\ deleted' = IF Avail /\ cmdOk THEN With(deleted, k, k \in DOMAIN redis) ELSE deleted
    /\ pc' = [pc EXCEPT ![p] = "dp_keys"]
    /\ UNCHANGED <<varsKeys, cacheEnabled, started, connected, storeUp, flaky, db, op, args, loc,
                   result, raised, nreq, committed>>

NextDelete ==
    \/ Startup
    \/ \E p \in Clients :
         \/ StartCreateMessage(p)
         \/ StartGetConversationMessages(p)
         \/ StartGetMessageById(p)
         \/ StartDeleteMessage(p)
         \/ CreateMessageCommit(p)
         \/ ReadThroughGet(p)
         \/ ReadThroughQuery(p)
         \/ GetMessageGet(p)
         \/ GetMessageQuery(p)
         \/ GetMessageReturn(p)
         \/ DeleteMessageCommit(p)
         \/ DeleteMessageCacheDelete(p)
         \/ QueuedSet(p)
         \/ DeletePatternKeys(p)
         \/ DeletePatternDel(p)
         \/ Finish(p)

SpecDelete == InitInval /\ [][NextDelete]_vars

\* delete_message returned True and every cache call of it was answered
DeletedQuietly(p) ==
    /\ Done(p, "delete_message")
    /\ result[p] = PyBool(TRUE)
    /\ hist[p].probes = {TRUE}
    /\ ~hist[p].cmdFailed

\* C16: delete_message(id) by the sender s of a message to r queues the
\* patterns message creation queues for (id, s, r), and after it completes
\* with the store available message:{id}, every conversation page of the
\* pair and every my-messages page of s and of r is absent.
C16_DeletePurgesLikeCreate ==
    \A p \in Procs :
        /\ pc[p] = "dm_delete" =>
              LET m == loc[p].obj
              IN loc[p].patterns =
                     invalidate_message_cache(args[p].id, DictGet(m, "sender_id").n,
                                              DictGet(m, "recipient_id").n)
        /\ DeletedQuietly(p) =>
              LET s == DictGet(loc[p].obj, "sender_id").n
                  r == DictGet(loc[p].obj, "recipient_id").n
              IN ({CacheKeys_message(args[p].id)} \cup ConversationPages(s, r)
                    \cup MyMessagesPages(s) \cup MyMessagesPages(r)) \cap DOMAIN redis = {}

\* a conversation page of the pair was populated when the deletion started,
\* the message went from the higher to the lower id, and the row is gone
C16_Witness ==
    \E p \in Procs :
        /\ DeletedQuietly(p)
        /\ DictGet(loc[p].obj, "sender_id").n > DictGet(loc[p].obj, "recipient_id").n
        /\ hist[p].pre \cap ConversationPages(DictGet(loc[p].obj, "sender_id").n,
                                              DictGet(loc[p].obj, "recipient_id").n) # {}
        /\ ~HasMessage(db, args[p].id)

-----------------------------------------------------------------------------
(* The write operations on a store that fails: it is down from the start   *)
(* (every probe answers False), or it is up and any command can raise      *)

InitFaulty ==
    /\ KeysIdle
    /\ cacheEnabled = TRUE
    /\ storeUp \in BOOLEAN
    /\ flaky = TRUE
    /\ StoreNew
    /\ db = SeedDb
    /\ ProcsIdle

NextFaulty ==
    \/ Startup
    \/ \E p \in Clients :
         \/ StartCreateUser(p)
         \/ StartUpdateUser(p)
         \/ StartCreateMessage(p)
         \/ StartMarkRead(p)
         \/ StartDeleteMessage(p)
         \/ CreateUserCommit(p)
         \/ UpdateUserCommit(p)
         \/ CreateMessageCommit(p)
         \/ GetMessageGet(p)
         \/ GetMessageQuery(p)
         \/ MarkReadCommit(p)
         \/ DeleteMessageCommit(p)
         \/ DeleteMessageCacheDelete(p)
         \/ QueuedSet(p)
         \/ DeletePatternKeys(p)
         \/ DeletePatternDel(p)
         \/ Finish(p)

SpecFaulty == InitFaulty /\ [][NextFaulty]_vars

HasCommitted(p) == \E i \in 1..Len(hist[p].trace) : hist[p].trace[i] = "commit"

\* the normal answer of a write operation
NormalSuccess(p) ==
    /\ raised[p] = ""
    /\ CASE op[p] \in {"mark_message_as_read", "delete_message"} -> result[p] = PyBool(TRUE)
         [] op[p] = "create_message" -> result[p] = loc[p].obj
         [] OTHER -> result[p].t = "dict"

\* the source of truth holds what the operation committed
SourceHolds(p) ==
    CASE op[p] = "create_message" ->
            /\ HasMessage(db, DictGet(result[p], "id").n)
            /\ MessageDict(MessageById(db, DictGet(result[p], "id").n)) = result[p]
      [] op[p] = "create_user" -> \E i \in DOMAIN db.users : UserDict(db.users[i]) = result[p]
      [] op[p] = "update_user" -> UserDict(db.users[args[p].user]) = result[p]
      [] op[p] = "mark_message_as_read" ->
            loc[p].attached => MessageById(db, args[p].id).is_read = 1
      [] op[p] = "delete_message" -> ~HasMessage(db, args[p].id)

CachedWrites ==
    {"create_user", "update_user", "create_message", "mark_message_as_read", "delete_message"}

\* C17: create_user, update_user, create_message, mark_message_as_read and
\* delete_message that reached their commit return their normal answer with
\* no exception and leave the committed change in the source of truth,
\* whichever of their cache set, delete and pattern-delete steps fail.
C17_CacheFailureNeverFailsWrite ==
    \A p \in Procs :
        (pc[p] = "done" /\ op[p] \in CachedWrites /\ HasCommitted(p)) =>
            NormalSuccess(p) /\ SourceHolds(p)

\* update_user ended after a commit, commands of it raised on a store that
\* answered the probe, and no entry was written
C17_Witness ==
    \E p \in Procs :
        /\ Done(p, "update_user")
        /\ HasCommitted(p)
        /\ hist[p].cmdFailed
        /\ redis = NoKeys
        /\ NormalSuccess(p)
        /\ SourceHolds(p)

-----------------------------------------------------------------------------
(* UserService.get_user_by_id *)

StartGetUserById(p) ==
    /\ \E u \in 1..(Len(db.users) + 1) :
           Begin(p, "get_user_by_id", [NoArgs EXCEPT !.user = u], "gu_get")
    /\ loc' = [loc EXCEPT ![p] = [NoLoc EXCEPT !.afterGet = "gm_ret", !.uid = args'[p].user]]
    /\ UNCHANGED <<varsKeys, varsStore, db, fresh, lastSet, committed, deleted>>

\* get_user_by_id(user_id), user_id in loc.uid: the cache first; a hit is
\* rebuilt from the dict
GetUserGet(p) ==
    /\ pc[p] = "gu_get"
    /\ \E cmdOk \in CmdOutcomes :
         LET k == CacheKeys_user_profile(loc[p].uid)
             r == CacheService_get(Avail, cmdOk, redis, k)
         IN /\ hist' = [hist EXCEPT ![p] =
                          [Seen(@, Avail, cmdOk) EXCEPT !.present = k \in DOMAIN redis,
                                                       !.answered = Avail /\ cmdOk]]
            /\ IF Truthy(r.value)
               THEN \E built \in Rebuilds(r.value) :
                      IF built = "TypeError"
                      THEN /\ raised' = [raised EXCEPT ![p] = "TypeError"]
                           /\ pc' = [pc EXCEPT ![p] = "done"]
                           /\ UNCHANGED loc
                      ELSE /\ loc' = [loc EXCEPT ![p].obj = r.value, ![p].attached = FALSE]
                           /\ pc' = [pc EXCEPT ![p] = loc[p].afterGet]
                           /\ UNCHANGED raised
               ELSE /\ pc' = [pc EXCEPT ![p] = "gu_query"]
                    /\ UNCHANGED <<loc, raised>>
    /\ UNCHANGED <<varsKeys, varsStore, db, op, args, result, nreq, fresh, lastSet, committed, deleted>>

\* the query on a miss; a row found is cached
GetUserQuery(p) ==
    /\ pc[p] = "gu_query"
    /\ hist' = [hist EXCEPT ![p].calls = @ + 1]
    /\ IF loc[p].uid \in DOMAIN db.users
       THEN LET obj == UserDict(db.users[loc[p].uid])
            IN /\ loc' = [loc EXCEPT ![p].obj = obj, ![p].attached = TRUE,
                              ![p].sets = <<[key |-> CacheKeys_user_profile(loc[p].uid),
                                             value |-> obj, ttl |-> cache_user_ttl,
                                             kind |-> "read_through"]>>,
                              ![p].afterSets = loc[p].afterGet]
               /\ pc' = [pc EXCEPT ![p] = "sets"]
       ELSE /\ loc' = [loc EXCEPT ![p].obj = PyNone, ![p].attached = FALSE]
            /\ pc' = [pc EXCEPT ![p] = loc[p].afterGet]
    /\ UNCHANGED <<varsKeys, varsStore, db, op, args, result, raised, nreq, fresh, lastSet,
                   committed, deleted>>

-----------------------------------------------------------------------------
(* The services with the store unavailable for the whole run, against the  *)
(* same operations on the source of truth with no cache calls              *)

InitDown ==
    /\ KeysIdle
    /\ cacheEnabled = TRUE
    /\ storeUp = FALSE
    /\ flaky = FALSE
    /\ StoreNew
    /\ db = SeedDb
    /\ ProcsIdle

NextDown ==
    \/ Startup
    \/ \E p \in Clients :
         \/ StartGetConversationMessages(p)
         \/ StartGetUserMessages(p)
         \/ StartGetUnreadCount(p)
         \/ StartGetConversationPartners(p)
         \/ StartSearchMessages(p)
         \/ StartGetRecentMessages(p)
         \/ StartGetMessageById(p)
         \/ StartGetUserById(p)
         \/ StartCreateUser(p)
         \/ StartUpdateUser(p)
         \/ StartCreateMessage(p)
         \/ StartMarkRead(p)
         \/ StartDeleteMessage(p)
         \/ ReadThroughGet(p)
         \/ ReadThroughQuery(p)
         \/ GetMessageGet(p)
         \/ GetMessageQuery(p)
         \/ GetUserGet(p)
         \/ GetUserQuery(p)
         \/ GetMessageReturn(p)
         \/ CreateUserCommit(p)
         \/ UpdateUserCommit(p)
         \/ CreateMessageCommit(p)
         \/ MarkReadCommit(p)
         \/ DeleteMessageCommit(p)
         \/ DeleteMessageCacheDelete(p)
         \/ QueuedSet(p)
         \/ DeletePatternKeys(p)
         \/ Finish(p)

SpecDown == InitDown /\ [][NextDown]_vars

Answer(v, d) == [result |-> v, raised |-> "", db |-> d]
Refused(e, d) == [result |-> PyNone, raised |-> e, db |-> d]

\* the statements of each method on the session, its cache calls left out
Direct(o, a, d) ==
    CASE o = "get_message_by_id" ->
            Answer(IF HasMessage(d, a.id) THEN MessageDict(MessageById(d, a.id)) ELSE PyNone, d)
      [] o = "get_user_by_id" ->
            Answer(IF a.user \in DOMAIN d.users THEN UserDict(d.users[a.user]) ELSE PyNone, d)
      [] o = "create_message" ->
            LET row == NewMessageRow(d, a.user, a.b, a.q)
            IN Answer(MessageDict(row), InsertMessage(d, row))
      [] o = "mark_message_as_read" ->
            IF HasMessage(d, a.id) /\ MessageById(d, a.id).recipient_id = a.user
            THEN Answer(PyBool(TRUE),
                        [d EXCEPT !.messages = [i \in 1..Len(@) |->
                            IF @[i].id = a.id THEN [@[i] EXCEPT !.is_read = 1] ELSE @[i]]])
            ELSE Answer(PyBool(FALSE), d)
      [] o = "delete_message" ->
            IF HasMessage(d, a.id) /\ MessageById(d, a.id).sender_id = a.user
            THEN Answer(PyBool(TRUE), DeleteRow(d, a.id))
            ELSE Answer(PyBool(FALSE), d)
      [] o = "create_user" ->
            LET row == UserRow(Len(d.users) + 1, NamePool[a.a], EmailPool[a.a])
            IN IF Taken(d, 0, row.username, row.email) THEN Refused("IntegrityError", d)
               ELSE Answer(UserDict(row), [d EXCEPT !.users = Append(@, row)])
      [] o = "update_user" ->
            IF a.user \notin DOMAIN d.users THEN Answer(PyNone, d)
            ELSE LET row == SetAttr(d.users[a.user], a.q, a.value.s)
                 IN IF Taken(d, row.id, row.username, row.email)
                    THEN Refused("IntegrityError", d)
                    ELSE Answer(UserDict(row), [d EXCEPT !.users[row.id] = row])
      [] OTHER -> Answer(ViewValue(o, a, d), d)

\* C18: with the store unavailable for the whole run, every operation of
\* the two services ends with the answer, the exception and the source of
\* truth that the same operation gives when run on the source of truth it
\* started from with no cache calls.
C18_DegradedEqualsUncached ==
    \A p \in Procs :
        pc[p] = "done" =>
            LET ref == Direct(op[p], args[p], hist[p].db0)
            IN /\ result[p] = ref.result
               /\ raised[p] = ref.raised
               /\ db = ref.db

\* a message was marked read with every probe of the request answered False
C18_Witness ==
    \E p \in Procs :
        /\ Done(p, "mark_message_as_read")
        /\ hist[p].probes = {FALSE}
        /\ result[p] = PyBool(TRUE)
        /\ db # hist[p].db0
        /\ redis = NoKeys

-----------------------------------------------------------------------------
(* The read-through call sites, one request after the other, on a store    *)
(* that answers                                                            *)

NextReadThrough ==
    \/ Startup
    \/ \E p \in Clients :
         \/ StartGetConversationMessages(p)
         \/ StartGetUserMessages(p)
         \/ StartGetUnreadCount(p)
         \/ StartGetConversationPartners(p)
         \/ StartSearchMessages(p)
         \/ StartGetRecentMessages(p)
         \/ StartGetMessageById(p)
         \/ StartGetUserById(p)
         \/ StartCreateMessage(p)
         \/ ReadThroughGet(p)
         \/ ReadThroughQuery(p)
         \/ GetMessageGet(p)
         \/ GetMessageQuery(p)
         \/ GetUserGet(p)
         \/ GetUserQuery(p)
         \/ GetMessageReturn(p)
         \/ CreateMessageCommit(p)
         \/ QueuedSet(p)
         \/ DeletePatternKeys(p)
         \/ DeletePatternDel(p)
         \/ Finish(p)

SpecReadThrough == InitInval /\ [][NextReadThrough]_vars

ReadThroughOps ==
    {"get_conversation_messages", "get_user_messages", "get_unread_count",
     "get_conversation_partners", "search_messages", "get_recent_messages",
     "get_message_by_id", "get_user_by_id"}

\* the key a read-through call site asks for
ReadKey(p) ==
    CASE op[p] = "get_message_by_id" -> CacheKeys_message(args[p].id)
      [] op[p] = "get_user_by_id" -> CacheKeys_user_profile(args[p].user)
      [] OTHER -> ViewKey(op[p], args[p])

\* a read-through call returned and every cache call of it was answered
ReadQuietly(p) ==
    /\ pc[p] = "done"
    /\ op[p] \in ReadThroughOps
    /\ raised[p] = ""
    /\ hist[p].probes = {TRUE}
    /\ ~hist[p].cmdFailed

\* C19: a read-through call whose key was populated when it asked the cache
\* returns without querying the source of truth; a call whose key was
\* absent queries the source of truth once and its key is populated when it
\* returns.
C19_ReadThroughHitOrPopulate ==
    \A p \in Procs :
        ReadQuietly(p) =>
            IF hist[p].present
            THEN hist[p].calls = 0
            ELSE hist[p].calls = 1 /\ ReadKey(p) \in DOMAIN redis

-----------------------------------------------------------------------------
(* CacheService.get on entries of every encoding: written by set with      *)
(* either serialize_method, or by another producer that shares the store   *)

Methods == {"json", "pickle"}

\* what another producer leaves under a key: a pickle, or bytes that are
\* neither a JSON text nor a pickle
ForeignBytes == {[fmt |-> "pickle", doc |-> PyInt(2)], [fmt |-> "garbage", doc |-> PyNone]}

StartSetWithMethod(p) ==
    /\ \E k \in TestKeys, v \in TestValues, m \in Methods :
           Begin(p, "set", [NoArgs EXCEPT !.key = k, !.value = v, !.method = m], "cs_set")
    /\ UNCHANGED <<varsKeys, varsStore, db, loc, fresh, lastSet, committed, deleted>>

ForeignWrite ==
    /\ started /\ storeUp
    /\ \E k \in TestKeys, b \in ForeignBytes :
           /\ ~(k \in DOMAIN redis /\ redis[k].val = b)
           /\ redis' = RedisSetex(redis, k, cache_default_ttl, b)
           /\ fresh' = Without(fresh, {k})
           /\ lastSet' = Without(lastSet, {k})
           /\ deleted' = Without(deleted, {k})
    /\ UNCHANGED <<varsKeys, cacheEnabled, started, connected, storeUp, flaky, db, varsProc, hist,
                   committed>>

NextDecode ==
    \/ Startup
    \/ ForeignWrite
    \/ \E p \in Clients :
         \/ StartSetWithMethod(p)
         \/ StartGet(p)
         \/ CacheSet(p)
         \/ CacheGet(p)
         \/ Finish(p)

SpecDecode == InitInval /\ [][NextDecode]_vars

\* a step of get that found an entry, its probe and its GET answered
GetsEntry(p) ==
    /\ pc[p] = "cs_get"
    /\ pc'[p] = "done"
    /\ hist'[p].answered
    /\ args[p].key \in DOMAIN redis

\* C20: get answers the JSON decoding of the entry when the entry is a JSON
\* text, the pickle decoding only when it is not, and None with no
\* exception when it is neither; the get leaves the stored entry as it was.
C20_JsonThenPickleElseNone ==
    [][\A p \in Procs :
          GetsEntry(p) =>
              LET bytes == redis[args[p].key].val
              IN /\ raised'[p] = ""
                 /\ json_loads(bytes).ok => result'[p] = json_loads(bytes).value
                 /\ ~json_loads(bytes).ok /\ pickle_loads(bytes).ok =>
                        result'[p] = pickle_loads(bytes).value
                 /\ ~json_loads(bytes).ok /\ ~pickle_loads(bytes).ok => result'[p] = PyNone
                 /\ redis' = redis]_vars

\* a get of bytes that another producer wrote and neither decoder accepts
\* returned None, the entry still there
C20_Witness ==
    \E p \in Procs :
        /\ Done(p, "get")
        /\ hist[p].present /\ hist[p].answered /\ ~hist[p].hadFresh
        /\ result[p] = PyNone
        /\ raised[p] = ""
        /\ args[p].key \in DOMAIN redis
        /\ redis[args[p].key].val.fmt = "garbage"

-----------------------------------------------------------------------------
(* CacheManager on its own: connect at startup, disconnect at shutdown,    *)
(* and the is_available probe in every state of the manager                *)

\* connect with its 'except Exception' left out: the client is assigned
\* before the ping that raises
CacheManager_connect_no_except(enabled, up) ==
    [raised |-> IF enabled /\ ~up THEN "ConnectionError" ELSE "", redis |-> enabled]

\* connect: returns at once when the cache is disabled; an exception of the
\* pool, the client or the ping is caught and redis is set back to None
CacheManager_connect(enabled, up) == [raised |-> "", redis |-> connect(enabled, up)]

\* the answers of is_available on a client that disconnect has closed: the
\* ping reconnects, or raises and is caught
ClosedPing(conn, up) == IF conn /\ up THEN BOOLEAN ELSE {FALSE}

\* a call of the manager by the application: it needs no running application
ManagerCall(p, o, v, e, answered) ==
    /\ Idle(p)
    /\ nreq < MaxRequests
    /\ nreq' = nreq + 1
    /\ op' = [op EXCEPT ![p] = o]
    /\ pc' = [pc EXCEPT ![p] = "done"]
    /\ result' = [result EXCEPT ![p] = v]
    /\ raised' = [raised EXCEPT ![p] = e]
    /\ hist' = [hist EXCEPT ![p] = [NoHist EXCEPT !.answered = answered]]
    /\ UNCHANGED <<varsKeys, cacheEnabled, flaky, redis, db, args, loc, fresh, lastSet,
                   committed, deleted>>

\* on_startup: cache_manager.connect()
ManagerConnect(p) ==
    /\ ~started
    /\ LET r == CacheManager_connect(cacheEnabled, storeUp)
       IN /\ ManagerCall(p, "connect", PyNone, r.raised, storeUp)
          /\ connected' = r.redis
    /\ started' = TRUE
    /\ UNCHANGED storeUp

\* on_shutdown: cache_manager.disconnect() closes the client and the pool;
\* the redis attribute keeps the closed client
ManagerDisconnect(p) ==
    /\ started
    /\ \E e \in IF connected /\ ~storeUp THEN {"", "ConnectionError"} ELSE {""} :
           ManagerCall(p, "disconnect", PyNone, e, storeUp)
    /\ started' = FALSE
    /\ UNCHANGED <<connected, storeUp>>

\* is_available, before connect, while connected and after disconnect
ManagerIsAvailable(p) ==
    /\ \E b \in IF started THEN {is_available(connected, storeUp)}
                ELSE ClosedPing(connected, storeUp) :
           ManagerCall(p, "is_available", PyBool(b), "", storeUp)
    /\ UNCHANGED <<started, connected, storeUp>>

\* the store stops answering or answers again, whatever the manager's state
StoreFlips ==
    /\ storeUp' = ~storeUp
    /\ UNCHANGED <<varsKeys, cacheEnabled, started, connected, flaky, redis, db, varsProc, varsHist>>

NextManager ==
    \/ StoreFlips
    \/ \E p \in Clients :
         \/ ManagerConnect(p)
         \/ ManagerDisconnect(p)
         \/ ManagerIsAvailable(p)
         \/ Finish(p)

SpecManager == InitCache /\ [][NextManager]_vars

\* C21: connect and is_available end with no exception in every state of
\* the manager; after a connect with the cache disabled or the store not
\* answering, redis is None and is_available answers False; is_available
\* answers False whenever redis is None, also after disconnect.
C21_ConnectAndProbeNeverRaise ==
    \A p \in Procs :
        /\ (pc[p] = "done" /\ op[p] \in {"connect", "is_available"}) => raised[p] = ""
        /\ (Done(p, "connect") /\ (~cacheEnabled \/ ~hist[p].answered)) =>
               ~connected /\ ~is_available(connected, storeUp)
        /\ (Done(p, "is_available") /\ ~connected) => result[p] = PyBool(FALSE)

\* is_available answered False after a disconnect that followed a connect
\* the store did not answer
C21_Witness ==
    \E p \in Procs :
        /\ Done(p, "is_available")
        /\ cacheEnabled /\ ~started /\ ~connected /\ nreq = 3
        /\ result[p] = PyBool(FALSE)
        /\ raised[p] = ""

-----------------------------------------------------------------------------
(* The states of a key and the steps that change them *)

\* the step changes whether k is populated, or the entry it holds
KeyChanges(k) ==
    \/ (k \in DOMAIN redis) # (k \in DOMAIN redis')
    \/ k \in DOMAIN redis /\ k \in DOMAIN redis' /\ redis[k] # redis'[k]

\* the step is a step of p's call
Moves(p) == pc'[p] # pc[p] /\ pc[p] \notin {"idle", "done"}

\* a set of k by set or get_or_set: the entry afterwards is the encoding of
\* the value given, whatever was there
SetOf(p, k) ==
    /\ Moves(p)
    /\ pc[p] \in {"cs_set", "gos_set"}
    /\ args[p].key = k
    /\ k \in DOMAIN redis'
    /\ redis'[k] = [val |-> IF pc[p] = "cs_set"
                            THEN Serialize(args[p].value, args[p].method)
                            ELSE Serialize(loc[p].value, "json"),
                    ttl |-> EffectiveTtl(args[p].ttl), age |-> 0]

\* a delete of k, or the DEL of a pattern delete whose KEYS found k
DeleteOf(p, k) ==
    /\ Moves(p)
    /\ \/ pc[p] = "cs_delete" /\ args[p].key = k
       \/ pc[p] = "dp_del" /\ k \in loc[p].keys

\* the store dropped entries; no call moved
Expiry == pc' = pc /\ DOMAIN redis' \subseteq DOMAIN redis

\* a call that the probe turned away or whose command raised
FailedCall(p) ==
    /\ Moves(p)
    /\ \/ pc[p] # "gos_func" /\ ~Avail
       \/ hist'[p].cmdFailed /\ ~hist[p].cmdFailed

KeyStep ==
    /\ \A k \in DOMAIN redis \cup DOMAIN redis' :
          KeyChanges(k) =>
              IF k \notin DOMAIN redis THEN \E p \in Procs : SetOf(p, k)
              ELSE IF k \in DOMAIN redis' THEN \E p \in Procs : SetOf(p, k)
              ELSE Expiry \/ \E p \in Procs : DeleteOf(p, k)
    /\ \A p \in Procs :
          (FailedCall(p) \/ (Moves(p) /\ pc[p] \in {"cs_get", "cs_exists", "gos_get", "dp_keys"}))
              => redis' = redis

\* C22: a key is absent or populated with one whole entry; it becomes
\* populated, or its entry is replaced as a whole, only by a set; it becomes
\* absent only by expiry or by a delete or pattern delete that names it;
\* get, exists, KEYS and a failed call change no key.
C22_KeyStateMachine ==
    /\ [](\A k \in DOMAIN redis : DOMAIN redis[k] = {"val", "ttl", "age"}
                                   /\ DOMAIN redis[k].val = {"fmt", "doc"})
    /\ [][KeyStep]_vars

\* the third call is a get of a key that a set populated: it answers the
\* value and the entry is still the encoding of what was set
C22_Witness ==
    \E p \in Procs, k \in DOMAIN redis :
        /\ Done(p, "get") /\ args[p].key = k
        /\ hist[p].hadFresh /\ k \in DOMAIN fresh
        /\ nreq = 3
        /\ redis[k].val = Serialize(PyInt(1), "json")
        /\ result[p] = PyInt(1)

-----------------------------------------------------------------------------
(* cache_key on drawn arguments, in the processes that share the store      *)

MaxSeed == 1
MaxArgs == 2

\* PYTHONHASHSEED of a process: the hash of a str depends on it, and it
\* is drawn at random at process start unless the environment fixes it
HashSeeds == 0..MaxSeed

RECURSIVE str_items(_)
str_items(xs) ==
    IF xs = <<>> THEN <<>>
    ELSE (IF Head(xs).t = "int" THEN Str(Head(xs).n) ELSE <<Head(xs).s>>)
             \o <<",">> \o str_items(Tail(xs))

\* str(arg)
str(x) ==
    CASE x.t = "str" -> <<x.s>>
      [] x.t = "int" -> Str(x.n)
      [] x.t = "none" -> <<"None">>
      [] x.t = "tuple" -> <<"(">> \o str_items(x.items) \o <<")">>
      [] OTHER -> <<x.t>>

\* hash(text) of a str in a process with the given seed, as decimal text
str_hash(seed, text) == <<"hash">> \o Str(seed) \o text

isinstance_str_int_float(x) == x.t \in {"str", "int", "bool", "float"}

RECURSIVE JoinColon(_)
JoinColon(parts) ==
    IF Len(parts) = 1 THEN parts[1]
    ELSE parts[1] \o Colon \o JoinColon(Tail(parts))

\* the names a keyword argument can have, in sorted order
KwNames == <<"limit", "offset">>

\* sorted(kwargs.items()): the items by name
sorted_items(kwargs) ==
    LET pick(name) == SelectSeq(kwargs, LAMBDA kv : kv[1] = name)
    IN pick(KwNames[1]) \o pick(KwNames[2])

\* cache_key(prefix, *args, **kwargs) evaluated in a process with the
\* given hash seed; kwargs is the sequence of <<name, value>> as passed
cache_key(seed, prefix, posargs, kwargs) ==
    LET argPart(arg) == IF isinstance_str_int_float(arg) THEN str(arg)
                        ELSE str_hash(seed, str(arg))
        kwPart(kv) == <<kv[1]>> \o Colon \o
                      (IF isinstance_str_int_float(kv[2]) THEN str(kv[2])
                       ELSE str_hash(seed, str(kv[2])))
        items == sorted_items(kwargs)
        key_parts == <<<<prefix>>>>
                        \o [i \in 1..Len(posargs) |-> argPart(posargs[i])]
                        \o [i \in 1..Len(items) |-> kwPart(items[i])]
    IN JoinColon(key_parts)

KeyValues == {PyInt(1), PyStr("a"), PyNone, PyTuple(<<PyInt(1)>>)}

KeyArgs == UNION {[1..n -> KeyValues] : n \in 0..MaxArgs}

KeyKwargs ==
    {<<>>}
      \cup {<<<<n, v>>>> : n \in {"limit", "offset"}, v \in {PyInt(1), PyNone}}
      \cup {<<<<ns[1], v1>>, <<ns[2], v2>>>> :
                ns \in {<<"limit", "offset">>, <<"offset", "limit">>},
                v1 \in {PyInt(1), PyNone}, v2 \in {PyInt(1), PyNone}}

Reversed(xs) == [i \in 1..Len(xs) |-> xs[Len(xs) + 1 - i]]

\* kArgs holds the call [prefix, args, kwargs], the hash seed of each
\* process, and the two processes that evaluated the call
InitDerive ==
    /\ kArgs \in [prefix : {"user", "search"}, args : KeyArgs, kwargs : KeyKwargs,
                  seed : [Procs -> HashSeeds], by : {<<>>}]
    /\ kKey = <<>>
    /\ kKeyRev = <<>>
    /\ cacheEnabled = TRUE
    /\ storeUp = TRUE
    /\ flaky = FALSE
    /\ StoreNew
    /\ db = SeedDb
    /\ ProcsIdle

\* process p evaluates the call as written, process q the same call with
\* the keyword arguments passed in the opposite order
DeriveCacheKey(p, q) ==
    /\ kKey = <<>>
    /\ kKey' = cache_key(kArgs.seed[p], kArgs.prefix, kArgs.args, kArgs.kwargs)
    /\ kKeyRev' = cache_key(kArgs.seed[q], kArgs.prefix, kArgs.args, Reversed(kArgs.kwargs))
    /\ kArgs' = [kArgs EXCEPT !.by = <<p, q>>]
    /\ UNCHANGED <<varsStore, db, varsProc, varsHist>>

NextDerive == \E p \in Procs, q \in Procs : DeriveCacheKey(p, q)

SpecDerive == InitDerive /\ [][NextDerive]_vars

\* C23: key derivation is pure and deterministic: cache_key returns the
\* same key for equal arguments in every process that shares the store
\* and whatever the order in which the keyword arguments are passed, and
\* deriving a key changes neither the store nor the source of truth.
C23_KeyDerivationDeterministic ==
    /\ kKey # <<>> => kKey = kKeyRev
    /\ redis = NoKeys
    /\ db = SeedDb

-----------------------------------------------------------------------------
(* POST /register, from concurrent requests                                 *)

MaxRegId == 4

\* the usernames a registration can ask for, as indexes of the pool: those
\* of the registered users and new ones; the address asked for is the one
\* that goes with the name or the first registered user's
RegIds == 1..MaxRegId

RegEmails(n) == {n, 1}

HTTP_400_registered == "400 Username or email already registered"

\* check_user_exists(username, email): the branch a call takes
check_user_exists_branch(username, email) ==
    IF username # "" THEN "username" ELSE IF email # "" THEN "email" ELSE "none"

StartRegister(p) ==
    /\ \E n \in RegIds : \E e \in RegEmails(n) :
           Begin(p, "register", [NoArgs EXCEPT !.a = n, !.b = e], "rg_get")
    /\ UNCHANGED <<varsKeys, varsStore, db, loc, fresh, lastSet, committed, deleted>>

\* check_user_exists with a username: get_user_by_username asks the cache
\* first; a hit is rebuilt from the dict and the user exists
RegisterGet(p) ==
    /\ pc[p] = "rg_get"
    /\ check_user_exists_branch(NamePool[args[p].a], EmailPool[args[p].b]) = "username"
    /\ \E cmdOk \in CmdOutcomes :
         LET k == CacheKeys_user_by_username(NamePool[args[p].a])
             r == CacheService_get(Avail, cmdOk, redis, k)
         IN /\ hist' = [hist EXCEPT ![p] =
                          [Seen(@, Avail, cmdOk) EXCEPT !.present = k \in DOMAIN redis,
                                                       !.answered = Avail /\ cmdOk]]
            /\ IF Truthy(r.value)
               THEN \E built \in Rebuilds(r.value) :
                      IF built = "TypeError"
                      THEN /\ raised' = [raised EXCEPT ![p] = "TypeError"]
                           /\ pc' = [pc EXCEPT ![p] = "done"]
                      ELSE /\ pc' = [pc EXCEPT ![p] = "rg_refuse"]
                           /\ UNCHANGED raised
               ELSE /\ pc' = [pc EXCEPT ![p] = "rg_query"]
                    /\ UNCHANGED raised
    /\ UNCHANGED <<varsKeys, varsStore, db, op, args, loc, result, nreq, fresh, lastSet,
                   committed, deleted>>

\* get_user_by_username on a miss: the query by username; a row found is
\* cached under its username and its id and the user exists, no row found
\* and register goes on to create_user
RegisterQuery(p) ==
    /\ pc[p] = "rg_query"
    /\ hist' = [hist EXCEPT ![p].calls = @ + 1]
    /\ IF \E i \in DOMAIN db.users : db.users[i].username = NamePool[args[p].a]
       THEN LET row == db.users[CHOOSE i \in DOMAIN db.users :
                                    db.users[i].username = NamePool[args[p].a]]
                obj == UserDict(row)
            IN /\ loc' = [loc EXCEPT ![p].sets =
                            <<[key |-> CacheKeys_user_by_username(row.username), value |-> obj,
                               ttl |-> cache_user_ttl, kind |-> "read_through"],
                              [key |-> CacheKeys_user_profile(row.id), value |-> obj,
                               ttl |-> cache_user_ttl, kind |-> "read_through"]>>,
                              ![p].afterSets = "rg_refuse"]
               /\ pc' = [pc EXCEPT ![p] = "sets"]
       ELSE /\ pc' = [pc EXCEPT ![p] = "cu_commit"]
            /\ UNCHANGED loc
    /\ UNCHANGED <<varsKeys, varsStore, db, op, args, result, raised, nreq, fresh, lastSet,
                   committed, deleted>>

\* if user_exists: raise HTTPException(400)
RegisterRefuse(p) ==
    /\ pc[p] = "rg_refuse"
    /\ raised' = [raised EXCEPT ![p] = HTTP_400_registered]
    /\ pc' = [pc EXCEPT ![p] = "done"]
    /\ UNCHANGED <<varsKeys, varsStore, db, op, args, loc, result, nreq, hist, fresh, lastSet,
                   committed, deleted>>

NextRegister ==
    \/ Startup
    \/ \E p \in Procs :
         \/ StartRegister(p)
         \/ RegisterGet(p)
         \/ RegisterQuery(p)
         \/ RegisterRefuse(p)
         \/ CreateUserCommit(p)
         \/ QueuedSet(p)
         \/ Finish(p)

SpecRegister == InitInval /\ [][NextRegister]_vars

\* the requested username or address belonged to a persisted user when
\* the request came in
TakenAtStart(p) ==
    \E i \in DOMAIN hist[p].db0.users :
        \/ hist[p].db0.users[i].username = NamePool[args[p].a]
        \/ hist[p].db0.users[i].email = EmailPool[args[p].b]

\* C24: register answers 400 'Username or email already registered' and
\* creates no user whenever the requested username or email already
\* belongs to a persisted user, also when only the email is taken.
C24_DuplicateRegistrationRefused ==
    \A p \in Procs :
        (pc[p] = "done" /\ op[p] = "register" /\ TakenAtStart(p))
            => (raised[p] = HTTP_400_registered /\ ~HasCommitted(p))

\* every persisted user with the requested username or email is the one
\* this request created: no other request asked for either
NoOtherHolder(p) ==
    \A i \in DOMAIN db.users :
        (db.users[i].username = NamePool[args[p].a] \/ db.users[i].email = EmailPool[args[p].b])
            => (result[p].t = "dict" /\ DictGet(result[p], "id").n = db.users[i].id)

RegisteredOnce(p) ==
    /\ raised[p] = ""
    /\ Len(SelectSeq(hist[p].trace, LAMBDA e : e = "commit")) = 1
    /\ Len(SelectSeq(db.users, LAMBDA u : u.username = NamePool[args[p].a])) = 1
    /\ Len(SelectSeq(db.users, LAMBDA u : u.email = EmailPool[args[p].b])) = 1

\* C28: concurrent register requests whose usernames and emails are
\* pairwise distinct all succeed under every interleaving, each creating
\* exactly one user.
C28_DistinctRegistrationsAllSucceed ==
    \A p \in Procs :
        (pc[p] = "done" /\ op[p] = "register" /\ NoOtherHolder(p)) => RegisteredOnce(p)

\* two registrations with different names and addresses overlapped and
\* both are answered
C28_Witness ==
    /\ \A p \in Procs : pc[p] = "done" /\ op[p] = "register" /\ hist[p].overlap
                        /\ NoOtherHolder(p) /\ RegisteredOnce(p)
    /\ args[1].a # args[2].a
    /\ args[1].b # args[2].b

-----------------------------------------------------------------------------
(* /send and /messages with the default pagination, one request after the  *)
(* other, on a store that answers                                          *)

\* a conversation of DefaultLimit messages from user 1 to user 2: the next
\* message sent is one more than a page holds
BulkDb ==
    [SeedDb EXCEPT
        !.messages = [i \in 1..DefaultLimit |->
                        [id |-> i, content |-> "hi", sender_id |-> 1, recipient_id |-> 2,
                         created_at |-> i, message_type |-> "text", is_read |-> 0]],
        !.nextMsgId = DefaultLimit + 1,
        !.clock = DefaultLimit + 1]

InitConversation ==
    /\ KeysIdle
    /\ cacheEnabled = TRUE
    /\ storeUp = TRUE
    /\ flaky = FALSE
    /\ StoreNew
    /\ db \in {SeedDb, BulkDb}
    /\ ProcsIdle

\* get_conversation_messages(user1_id, user2_id) with limit = 50, offset = 0
StartGetConversationDefault(p) ==
    /\ \E u1 \in UserIds, u2 \in UserIds :
           Begin(p, "get_conversation_messages",
                 [NoArgs EXCEPT !.user = u1, !.b = u2, !.limit = DefaultLimit, !.offset = 0],
                 "rt_get")
    /\ UNCHANGED <<varsKeys, varsStore, db, loc, fresh, lastSet, committed, deleted>>

NextConversation ==
    \/ Startup
    \/ \E p \in Clients :
         \/ StartCreateMessage(p)
         \/ StartGetConversationDefault(p)
         \/ CreateMessageCommit(p)
         \/ ReadThroughGet(p)
         \/ ReadThroughQuery(p)
         \/ QueuedSet(p)
         \/ DeletePatternKeys(p)
         \/ DeletePatternDel(p)
         \/ Finish(p)

SpecConversation == InitConversation /\ [][NextConversation]_vars

\* the ids of the messages of a list, in its order
IdsOf(list) == [i \in 1..Len(list.items) |-> DictGet(list.items[i], "id").n]

\* the (up to 50) newest persisted messages between the two users
NewestBetween(d, u1, u2) ==
    LET rows == ConversationQuery(d, u1, u2, DefaultLimit, 0)
    IN [i \in 1..Len(rows) |-> rows[i].id]

\* C25: with no overlapping operations and the store available,
\* get_conversation_messages(a, b) with the default pagination returns
\* exactly the (up to 50) newest persisted messages between a and b in
\* either direction, so a message just sent is in the next retrieval and
\* the number returned is the number sent while that is at most 50.
C25_ConversationReturnsNewest ==
    \A p \in Clients :
        (pc[p] = "done" /\ op[p] = "get_conversation_messages")
            => /\ raised[p] = ""
               /\ result[p].t = "list"
               /\ IdsOf(result[p]) = NewestBetween(db, args[p].user, args[p].b)

-----------------------------------------------------------------------------
(* /messages asked by both users of a conversation                          *)

\* no other request is in flight: the requests come one after the other,
\* and the answer of the one before is still at hand
Alone(p) == \A q \in Procs \ {p} : pc[q] \in {"idle", "done"}

NextSymmetry ==
    \/ Startup
    \/ \E p \in Procs :
         /\ Alone(p)
         /\ \/ StartCreateMessage(p)
            \/ StartGetConversationMessages(p)
            \/ CreateMessageCommit(p)
            \/ ReadThroughGet(p)
            \/ ReadThroughQuery(p)
            \/ QueuedSet(p)
            \/ DeletePatternKeys(p)
            \/ DeletePatternDel(p)
            \/ Finish(p)

SpecSymmetry == InitInval /\ [][NextSymmetry]_vars

\* the fields of the messages of a list that the two users compare
Shown(list) ==
    [i \in 1..Len(list.items) |->
        <<DictGet(list.items[i], "id").n, DictGet(list.items[i], "content").s,
          DictGet(list.items[i], "sender_id").n, DictGet(list.items[i], "recipient_id").n>>]

\* p asked for (a, b) and q for (b, a) with the same pagination, one after
\* the other with nothing else in flight and no write in between
AskedBothWays(p, q) ==
    /\ p # q
    /\ pc[p] = "done" /\ pc[q] = "done"
    /\ op[p] = "get_conversation_messages" /\ op[q] = "get_conversation_messages"
    /\ args[p].user = args[q].b /\ args[p].b = args[q].user
    /\ args[p].limit = args[q].limit /\ args[p].offset = args[q].offset
    /\ ~hist[p].overlap /\ ~hist[q].overlap
    /\ hist[p].db0 = db /\ hist[q].db0 = db

\* C26: get_conversation_messages(a, b) and get_conversation_messages(b, a)
\* with the same pagination return the same list, in any state of the
\* cache and of the source of truth.
C26_ConversationSymmetric ==
    \A p \in Procs, q \in Procs :
        AskedBothWays(p, q)
            => /\ raised[p] = "" /\ raised[q] = ""
               /\ Shown(result[p]) = Shown(result[q])

-----------------------------------------------------------------------------
(* The endpoints behind the bearer token.  A request names the endpoint    *)
(* (args.view), carries the token of its Authorization header (args.value) *)
(* and of its query string (args.pval), None when it has none, and the     *)
(* endpoint's own parameters.                                              *)

\* a token the issuer made for a subject, and a text no issuer made
Token(sub) == [t |-> "str", n |-> sub, s |-> "jwt", items |-> <<>>]

InvalidToken == PyStr("invalid_token")

\* decode_token: the payload {"sub": str(id)} of a token the issuer made,
\* None for any other text
decode_token(token) ==
    IF token.t = "str" /\ token.s = "jwt"
    THEN PyDict(<<PyStr("sub"), PyStrOf(PyInt(token.n))>>)
    ELSE PyNone

\* int(text) of the decimal text of a number
int(text) == text.n

Protected ==
    {"/send", "/messages", "/conversations", "/unread-count", "/messages/{message_id}/read",
     "/users/search", "/users/online"}

\* where the endpoint's signature takes its token from: Depends(oauth2_scheme)
\* reads the Authorization header, a plain 'token: str' the query string
TokenParam(endpoint) == IF endpoint = "/messages" THEN "query" ELSE "bearer"

\* the service method the endpoint calls for the current user
ServiceOf(endpoint) ==
    CASE endpoint = "/send" -> "create_message"
      [] endpoint = "/messages" -> "get_conversation_messages"
      [] endpoint = "/conversations" -> "get_conversation_partners"
      [] endpoint = "/unread-count" -> "get_unread_count"
      [] endpoint = "/messages/{message_id}/read" -> "mark_message_as_read"
      [] endpoint = "/users/search" -> "search_users"
      [] endpoint = "/users/online" -> "get_online_users"

HTTP_401_not_authenticated == "401 Not authenticated"
HTTP_401_invalid_token == "401 Invalid token"
HTTP_401_user_not_found == "401 User not found"
HTTP_404_recipient == "404 Recipient not found"
HTTP_422_missing == "422 field required"

\* the tokens a request can carry: none, an invalid one, one issued for a
\* persisted user or for a user that is not persisted
Credentials(d) == {PyNone, InvalidToken} \cup {Token(u) : u \in 1..(Len(d.users) + 1)}

Subject(token) == IF decode_token(token) = PyNone THEN 0 ELSE int(DictGet(decode_token(token), "sub"))

\* the parameters of the endpoint: the other user, the content, the
\* message id, the query, and the defaults of the service method
EndpointArgs(endpoint, header, query, other) ==
    [NoArgs EXCEPT !.view = endpoint, !.value = header, !.pval = query,
                   !.user = Subject(IF TokenParam(endpoint) = "query" THEN query ELSE header),
                   !.b = other,
                   !.id = 1,
                   !.q = IF endpoint = "/send" THEN "hi"
                         ELSE IF endpoint = "/users/search" THEN "alice" ELSE "",
                   !.limit = IF endpoint = "/messages" THEN DefaultLimit
                             ELSE IF endpoint = "/users/search" THEN UserSearchLimit ELSE 0]

StartRequest(p, endpoint) ==
    /\ \E header \in Credentials(db), other \in 1..(Len(db.users) + 1) :
         \E query \in IF TokenParam(endpoint) = "query" THEN Credentials(db) ELSE {PyNone} :
           Begin(p, ServiceOf(endpoint), EndpointArgs(endpoint, header, query, other), "auth")
    /\ UNCHANGED <<varsKeys, varsStore, db, loc, fresh, lastSet, committed, deleted>>

\* the token parameter is resolved, then get_current_user decodes it and
\* looks the subject up
Authenticate(p) ==
    /\ pc[p] = "auth"
    /\ LET source == TokenParam(args[p].view)
           token == IF source = "query" THEN args[p].pval ELSE args[p].value
           payload == decode_token(token)
       IN IF token = PyNone
          THEN /\ raised' = [raised EXCEPT ![p] =
                               IF source = "query" THEN HTTP_422_missing
                               ELSE HTTP_401_not_authenticated]
               /\ pc' = [pc EXCEPT ![p] = "done"]
               /\ UNCHANGED loc
          ELSE IF ~Truthy(payload) \/ ~Truthy(DictGet(payload, "sub"))
          THEN /\ raised' = [raised EXCEPT ![p] = HTTP_401_invalid_token]
               /\ pc' = [pc EXCEPT ![p] = "done"]
               /\ UNCHANGED loc
          ELSE /\ loc' = [loc EXCEPT ![p] =
                            [NoLoc EXCEPT !.uid = int(DictGet(payload, "sub")),
                                          !.afterGet = "auth_user"]]
               /\ pc' = [pc EXCEPT ![p] = "gu_get"]
               /\ UNCHANGED raised
    /\ UNCHANGED <<varsKeys, varsStore, db, op, args, result, nreq, hist, fresh, lastSet,
                   committed, deleted>>

\* get_current_user: no such user; else the endpoint goes on with the
\* current user
AuthUser(p) ==
    /\ pc[p] = "auth_user"
    /\ IF ~Truthy(loc[p].obj)
       THEN /\ raised' = [raised EXCEPT ![p] = HTTP_401_user_not_found]
            /\ pc' = [pc EXCEPT ![p] = "done"]
            /\ UNCHANGED loc
       ELSE /\ UNCHANGED raised
            /\ CASE args[p].view = "/send" ->
                      /\ loc' = [loc EXCEPT ![p] =
                                   [NoLoc EXCEPT !.uid = args[p].b,
                                                 !.afterGet = "send_recipient"]]
                      /\ pc' = [pc EXCEPT ![p] = "gu_get"]
                 [] args[p].view = "/messages/{message_id}/read" ->
                      /\ loc' = [loc EXCEPT ![p] = [NoLoc EXCEPT !.afterGet = "mr_commit"]]
                      /\ pc' = [pc EXCEPT ![p] = "gm_get"]
                 [] OTHER ->
                      /\ loc' = [loc EXCEPT ![p] = NoLoc]
                      /\ pc' = [pc EXCEPT ![p] = "rt_get"]
    /\ UNCHANGED <<varsKeys, varsStore, db, op, args, result, nreq, hist, fresh, lastSet,
                   committed, deleted>>

\* send_message: the recipient is looked up; no such user is a 404, else
\* create_message runs
SendRecipient(p) ==
    /\ pc[p] = "send_recipient"
    /\ IF ~Truthy(loc[p].obj)
       THEN /\ raised' = [raised EXCEPT ![p] = HTTP_404_recipient]
            /\ pc' = [pc EXCEPT ![p] = "done"]
       ELSE /\ pc' = [pc EXCEPT ![p] = "cm_commit"]
            /\ UNCHANGED raised
    /\ UNCHANGED <<varsKeys, varsStore, db, op, args, loc, result, nreq, hist, fresh, lastSet,
                   committed, deleted>>

MaxSends == 2

StartSend(p) == nreq < MaxSends /\ StartRequest(p, "/send")

\* POST /send from concurrent requests
NextSend ==
    \/ Startup
    \/ \E p \in Procs :
         \/ StartSend(p)
         \/ Authenticate(p)
         \/ GetUserGet(p)
         \/ GetUserQuery(p)
         \/ AuthUser(p)
         \/ SendRecipient(p)
         \/ CreateMessageCommit(p)
         \/ QueuedSet(p)
         \/ DeletePatternKeys(p)
         \/ DeletePatternDel(p)
         \/ Finish(p)

SpecSend == InitInval /\ [][NextSend]_vars

\* the request came with the token of a persisted user
Authenticated(p) == args[p].user \in DOMAIN hist[p].db0.users

\* the commits of the request
Commits(p) == Len(SelectSeq(hist[p].trace, LAMBDA e : e = "commit"))

\* C27: any number of send requests by an authenticated user to an
\* existing recipient, sequential or concurrent, all succeed; each persists
\* exactly one message with the caller as sender, the requested recipient
\* and the unchanged content, and the ids of the messages are pairwise
\* distinct.
C27_EverySendPersistsOneMessage ==
    /\ \A i \in 1..Len(db.messages), j \in 1..Len(db.messages) :
           i # j => db.messages[i].id # db.messages[j].id
    /\ \A p \in Procs :
        (/\ pc[p] = "done"
         /\ args[p].view = "/send"
         /\ Authenticated(p)
         /\ args[p].b \in DOMAIN hist[p].db0.users)
            => /\ raised[p] = ""
               /\ Commits(p) = 1
               /\ result[p].t = "dict"
               /\ HasMessage(db, DictGet(result[p], "id").n)
               /\ LET m == MessageById(db, DictGet(result[p], "id").n)
                  IN /\ m.sender_id = args[p].user
                     /\ m.recipient_id = args[p].b
                     /\ m.content = args[p].q

\* the cache invalidations the request issued
Invalidations(p) == Len(SelectSeq(hist[p].trace, LAMBDA e : e = "invalidate"))

\* C30: sending to a recipient id of no persisted user answers 404
\* 'Recipient not found', persists no message and issues no cache
\* invalidation.
C30_UnknownRecipientRefused ==
    \A p \in Procs :
        (/\ pc[p] = "done"
         /\ args[p].view = "/send"
         /\ Authenticated(p)
         /\ args[p].b \notin DOMAIN hist[p].db0.users)
            => /\ raised[p] = HTTP_404_recipient
               /\ Commits(p) = 0
               /\ Invalidations(p) = 0

-----------------------------------------------------------------------------
(* The protected endpoints, one request after the other                     *)

StartProtected(p) == \E endpoint \in Protected : StartRequest(p, endpoint)

NextAuth ==
    \/ Startup
    \/ \E p \in Clients :
         \/ StartProtected(p)
         \/ Authenticate(p)
         \/ GetUserGet(p)
         \/ GetUserQuery(p)
         \/ AuthUser(p)
         \/ SendRecipient(p)
         \/ CreateMessageCommit(p)
         \/ ReadThroughGet(p)
         \/ ReadThroughQuery(p)
         \/ GetMessageGet(p)
         \/ GetMessageQuery(p)
         \/ MarkReadCommit(p)
         \/ QueuedSet(p)
         \/ DeletePatternKeys(p)
         \/ DeletePatternDel(p)
         \/ Finish(p)

SpecAuth == InitInval /\ [][NextAuth]_vars

Unauthorized == {HTTP_401_not_authenticated, HTTP_401_invalid_token, HTTP_401_user_not_found}

\* C29: every protected endpoint answers 401 when the request carries no
\* bearer token or an invalid one, and then performs no write to the
\* source of truth and no cache set or delete.
C29_ProtectedEndpointsRefuse ==
    \A p \in Clients :
        (/\ pc[p] = "done"
         /\ args[p].view \in Protected
         /\ args[p].value \in {PyNone, InvalidToken})
            => /\ raised[p] \in Unauthorized
               /\ hist[p].trace = <<>>
               /\ db = hist[p].db0

-----------------------------------------------------------------------------
(* mark_message_as_read refused and granted                                 *)

\* the message did not exist when the request came in, or the caller was
\* not its recipient
NotMarkable(p) ==
    \/ ~HasMessage(hist[p].db0, args[p].id)
    \/ MessageById(hist[p].db0, args[p].id).recipient_id # args[p].user

\* C31: mark_message_as_read returns False when the message does not exist
\* or the caller is not its recipient, and then leaves the read flag of
\* every persisted message unchanged and issues no invalidation.
C31_RefusedMarkChangesNothing ==
    \A p \in Clients :
        (pc[p] = "done" /\ op[p] = "mark_message_as_read" /\ NotMarkable(p))
            => /\ raised[p] = ""
               /\ result[p] = PyBool(FALSE)
               /\ db.messages = hist[p].db0.messages
               /\ Invalidations(p) = 0

-----------------------------------------------------------------------------
(* The own entry of a new message *)

OwnKey(p) == CacheKeys_message(DictGet(result[p], "id").n)

-----------------------------------------------------------------------------
(* A conversation read that overlaps a create_message of the same pair:    *)
(* the requests of two tasks interleave at every await of a cache call.    *)

NextReinstall ==
    \/ Startup
    \/ \E p \in Procs :
         \/ StartCreateMessage(p)
         \/ StartGetConversationDefault(p)
         \/ CreateMessageCommit(p)
         \/ ReadThroughGet(p)
         \/ ReadThroughQuery(p)
         \/ QueuedSet(p)
         \/ DeletePatternKeys(p)
         \/ DeletePatternDel(p)
         \/ Finish(p)

SpecReinstall == InitInval /\ [][NextReinstall]_vars

\* the ids of the messages of the page the store holds under key k
CachedPageIds(k) ==
    LET list == Deserialize(redis[k].val).value
    IN {DictGet(list.items[i], "id").n : i \in 1..Len(list.items)}

\* reader p missed and queried while writer q sent a message of the same
\* pair, and both have completed
MissOverlapsCreate(p, q) ==
    /\ Done(p, "get_conversation_messages") /\ raised[p] = ""
    /\ hist[p].calls = 1
    /\ Done(q, "create_message") /\ raised[q] = ""
    /\ {args[p].user, args[p].b} = {args[q].user, args[q].b}
    /\ hist[p].overlap /\ hist[q].overlap

\* C34: if a get_conversation_messages(a, b) cache miss overlaps a
\* create_message between a and b, then once both have completed the cached
\* conversation page is either absent or contains the new message.
C34_NoPreWriteSnapshotReinstalled ==
    \A p \in Procs, q \in Procs :
        MissOverlapsCreate(p, q) =>
            \/ ReadKey(p) \notin DOMAIN redis
            \/ DictGet(result[q], "id").n \in CachedPageIds(ReadKey(p))

-----------------------------------------------------------------------------
(* Uniqueness of usernames and emails under concurrent registration *)

\* C35: in every reachable state, under any interleaving of register
\* requests, no two persisted users share a username and no two share an
\* email.
C35_UsernamesAndEmailsUnique ==
    \A i \in DOMAIN db.users, j \in DOMAIN db.users :
        i # j => /\ db.users[i].username # db.users[j].username
                 /\ db.users[i].email # db.users[j].email

\* two overlapping registrations of one name both passed the existence
\* check; the insert of the second was refused
C35_Witness ==
    \E p \in Procs, q \in Procs :
        /\ p # q
        /\ Done(p, "register") /\ Done(q, "register")
        /\ hist[p].overlap /\ hist[q].overlap
        /\ args[p].a = args[q].a
        /\ ~TakenAtStart(p) /\ ~TakenAtStart(q)
        /\ HasCommitted(p)
        /\ raised[q] = "IntegrityError"

-----------------------------------------------------------------------------
(* delete_message: who may delete, and what a refusal leaves behind *)

SenderOfExisting(p) ==
    /\ HasMessage(hist[p].db0, args[p].id)
    /\ MessageById(hist[p].db0, args[p].id).sender_id = args[p].user

\* C36: delete_message(message_id, user_id) returns True only when the
\* caller is the sender of an existing message, and whenever it returns
\* True the message is no longer in the source of truth; for a missing
\* message or any other caller it returns False and deletes nothing.
C36_OnlySenderDeletes ==
    \A p \in Clients :
        (pc[p] = "done" /\ op[p] = "delete_message") =>
            /\ (raised[p] = "" /\ result[p] = PyBool(TRUE))
                   => (SenderOfExisting(p) /\ ~HasMessage(db, args[p].id))
            /\ ~SenderOfExisting(p)
                   => /\ raised[p] = ""
                      /\ result[p] = PyBool(FALSE)
                      /\ db.messages = hist[p].db0.messages

-----------------------------------------------------------------------------
(* update_user and the lookup keys of the values it replaces *)

\* update_user(p) changed the username or the email of a row, and every
\* cache call of the request was answered
Renamed(p) ==
    /\ Done(p, "update_user") /\ raised[p] = ""
    /\ hist[p].probes = {TRUE} /\ ~hist[p].cmdFailed
    /\ args[p].user \in DOMAIN hist[p].db0.users
    /\ \/ hist[p].db0.users[args[p].user].username # db.users[args[p].user].username
       \/ hist[p].db0.users[args[p].user].email # db.users[args[p].user].email

\* C37: after update_user changes a user's username or email with the
\* store available, no cache entry remains under the by-username or
\* by-email key of a value the row no longer has.
C37_OldLookupKeysPurged ==
    \A p \in Clients :
        Renamed(p) =>
            LET old == hist[p].db0.users[args[p].user]
                new == db.users[args[p].user]
            IN /\ old.username # new.username
                    => CacheKeys_user_by_username(old.username) \notin DOMAIN redis
               /\ old.email # new.email
                    => CacheKeys_user_by_email(old.email) \notin DOMAIN redis

-----------------------------------------------------------------------------
(* The single-object lookups: get_user_by_id, get_user_by_username,        *)
(* get_user_by_email and get_message_by_id, one request after the other,   *)
(* with the writes that create the rows they look for.                     *)

SingleLookups ==
    {"get_user_by_id", "get_user_by_username", "get_user_by_email", "get_message_by_id"}

\* the key of a lookup by username or by email
UserLookupKey(o, text) ==
    IF o = "get_user_by_username" THEN CacheKeys_user_by_username(text)
    ELSE CacheKeys_user_by_email(text)

\* User.username == username, or User.email == email
UserMatches(row, o, text) ==
    IF o = "get_user_by_username" THEN row.username = text ELSE row.email = text

CachedAlways(obj, entries) == entries

\* if user: await cache_service.set(...)
CachedOnFound(obj, entries) == IF obj # PyNone THEN entries ELSE <<>>

StartGetUserByText(p) ==
    /\ \E o \in {"get_user_by_username", "get_user_by_email"},
          i \in 1..(Len(db.users) + 1) :
           /\ i <= Len(NamePool)
           /\ Begin(p, o, [NoArgs EXCEPT !.q = IF o = "get_user_by_username"
                                                THEN NamePool[i] ELSE EmailPool[i]],
                    "gt_get")
    /\ loc' = [loc EXCEPT ![p] = [NoLoc EXCEPT !.afterGet = "gm_ret"]]
    /\ UNCHANGED <<varsKeys, varsStore, db, fresh, lastSet, committed, deleted>>

\* get_user_by_username, get_user_by_email: the cache first; a hit is
\* rebuilt from the dict
GetUserByTextGet(p) ==
    /\ pc[p] = "gt_get"
    /\ \E cmdOk \in CmdOutcomes :
         LET k == UserLookupKey(op[p], args[p].q)
             r == CacheService_get(Avail, cmdOk, redis, k)
         IN /\ hist' = [hist EXCEPT ![p] =
                          [Seen(@, Avail, cmdOk) EXCEPT !.present = k \in DOMAIN redis,
                                                       !.answered = Avail /\ cmdOk]]
            /\ IF Truthy(r.value)
               THEN \E built \in Rebuilds(r.value) :
                      IF built = "TypeError"
                      THEN /\ raised' = [raised EXCEPT ![p] = "TypeError"]
                           /\ pc' = [pc EXCEPT ![p] = "done"]
                           /\ UNCHANGED loc
                      ELSE /\ loc' = [loc EXCEPT ![p].obj = r.value, ![p].attached = FALSE]
                           /\ pc' = [pc EXCEPT ![p] = loc[p].afterGet]
                           /\ UNCHANGED raised
               ELSE /\ pc' = [pc EXCEPT ![p] = "gt_query"]
                    /\ UNCHANGED <<loc, raised>>
    /\ UNCHANGED <<varsKeys, varsStore, db, op, args, result, nreq, fresh, lastSet, committed, deleted>>

\* the query on a miss; a row found is cached under the lookup key and
\* under its id
GetUserByTextQuery(p) ==
    /\ pc[p] = "gt_query"
    /\ hist' = [hist EXCEPT ![p].calls = @ + 1]
    /\ LET found == {i \in DOMAIN db.users : UserMatches(db.users[i], op[p], args[p].q)}
           obj == IF found = {} THEN PyNone ELSE UserDict(db.users[CHOOSE i \in found : TRUE])
           own == <<[key |-> UserLookupKey(op[p], args[p].q), value |-> obj,
                     ttl |-> cache_user_ttl, kind |-> "read_through"]>>
           byId == IF found = {} THEN <<>>
                   ELSE <<[key |-> CacheKeys_user_profile(CHOOSE i \in found : TRUE),
                           value |-> obj, ttl |-> cache_user_ttl, kind |-> "read_through"]>>
           sets == CachedOnFound(obj, own \o byId)
       IN /\ loc' = [loc EXCEPT ![p].obj = obj, ![p].attached = (found # {}),
                                ![p].sets = sets, ![p].afterSets = loc[p].afterGet]
          /\ pc' = [pc EXCEPT ![p] = IF sets = <<>> THEN loc[p].afterGet ELSE "sets"]
    /\ UNCHANGED <<varsKeys, varsStore, db, op, args, result, raised, nreq, fresh, lastSet,
                   committed, deleted>>

NextLookup ==
    \/ Startup
    \/ \E p \in Clients :
         \/ StartGetUserById(p)
         \/ StartGetUserByText(p)
         \/ StartGetMessageById(p)
         \/ StartCreateUser(p)
         \/ StartCreateMessage(p)
         \/ GetUserGet(p)
         \/ GetUserQuery(p)
         \/ GetUserByTextGet(p)
         \/ GetUserByTextQuery(p)
         \/ GetMessageGet(p)
         \/ GetMessageQuery(p)
         \/ GetMessageReturn(p)
         \/ CreateUserCommit(p)
         \/ CreateMessageCommit(p)
         \/ QueuedSet(p)
         \/ DeletePatternKeys(p)
         \/ DeletePatternDel(p)
         \/ Finish(p)

SpecLookup == InitInval /\ [][NextLookup]_vars

\* the source of truth held a row for the lookup of p when it began
RowAtStart(p) ==
    CASE op[p] = "get_user_by_id" -> args[p].user \in DOMAIN hist[p].db0.users
      [] op[p] = "get_message_by_id" -> HasMessage(hist[p].db0, args[p].id)
      [] OTHER -> \E i \in DOMAIN hist[p].db0.users :
                      UserMatches(hist[p].db0.users[i], op[p], args[p].q)

\* C38: a single-object lookup that finds no row returns None and writes
\* nothing to the cache (no set is issued and the key set is the one it
\* found); a lookup of a row that exists, created earlier or not, that
\* returns does not return None.
C38_MissingRowWritesNothing ==
    \A p \in Clients :
        (pc[p] = "done" /\ op[p] \in SingleLookups) =>
            IF RowAtStart(p)
            THEN raised[p] = "" => result[p] # PyNone
            ELSE /\ raised[p] = ""
                 /\ result[p] = PyNone
                 /\ hist[p].trace = <<>>
                 /\ DOMAIN redis = hist[p].pre

\* a lookup by username or email found no row although other entries are
\* cached
C38_Witness ==
    \E p \in Clients :
        /\ pc[p] = "done" /\ op[p] \in {"get_user_by_username", "get_user_by_email"}
        /\ ~RowAtStart(p)
        /\ hist[p].calls = 1
        /\ hist[p].pre # {}
        /\ result[p] = PyNone

-----------------------------------------------------------------------------
(* CacheService.delete_pattern as one call: what it removes, what it       *)
(* returns and what it leaves alone.                                       *)

\* the keys that matched the pattern when the call of p began
Matched(p) == {k \in hist[p].pre : GlobMatch(args[p].pattern, k)}

\* the probe found the store available and every command was answered
Answered(p) == hist[p].probes = {TRUE} /\ ~hist[p].cmdFailed

\* a step of a delete_pattern call: keys that do not match keep their
\* entry, the call returns the number of keys its step removed, and when
\* nothing matches it returns 0 without a delete command
PatternStep ==
    \A p \in Clients :
        (op[p] = "delete_pattern" /\ pc[p] \in {"dp_keys", "dp_del"} /\ pc'[p] # pc[p]) =>
            /\ \A k \in DOMAIN redis :
                   ~GlobMatch(args[p].pattern, k) => (k \in DOMAIN redis' /\ redis'[k] = redis[k])
            /\ pc'[p] = "done" =>
                   result'[p] = PyInt(Cardinality(DOMAIN redis \ DOMAIN redis'))
            /\ (pc[p] = "dp_keys" /\ RedisKeys(redis, args[p].pattern) = {}) =>
                   (pc'[p] = "done" /\ redis' = redis /\ result'[p] = PyInt(0))

\* the original statement of C39: whenever delete_pattern has completed,
\* no key that matched when the call began is left
C39_EveryMatchingKeyRemoved ==
    \A p \in Clients :
        Done(p, "delete_pattern") => Matched(p) \cap DOMAIN redis = {}

\* C39: with the store available and its commands answered,
\* delete_pattern(pattern) removes every key that matches the pattern and
\* existed when the call began; in every case it returns the number of keys
\* it removed (0 and no delete command when nothing matches) and leaves
\* every key that does not match, and that key's value and expiry,
\* unchanged.
C39_AnsweredPatternDelete ==
    /\ [](\A p \in Clients :
              (Done(p, "delete_pattern") /\ Answered(p)) => Matched(p) \cap DOMAIN redis = {})
    /\ [][PatternStep]_vars

C39_Witness ==
    \E p \in Clients :
        /\ Done(p, "delete_pattern") /\ Answered(p)
        /\ Matched(p) # {}
        /\ result[p] = PyInt(Cardinality(Matched(p)))
        /\ DOMAIN redis # {}
        /\ DOMAIN redis = hist[p].pre \ Matched(p)

-----------------------------------------------------------------------------
(* The key space: every CacheKeys generator and every key the services     *)
(* build in place, over ids, limits and offsets of one and two digits and  *)
(* texts that contain ':' and digits.                                      *)

CacheKeys_user_conversations(user_id) == <<"user", "_conversations">> \o Colon \o Str(user_id)

CacheKeys_user_online_status(user_id) == <<"user", "_online">> \o Colon \o Str(user_id)

ResourceInts == {0, 1, 11}
ResourceTexts == DOMAIN Spelled

Resource(ns, a, b, limit, offset, text) ==
    [ns |-> ns, a |-> a, b |-> b, limit |-> limit, offset |-> offset, text |-> text]

NoResource == Resource("", 0, 0, 0, 0, "")

\* the lookups of the services: a namespace and its arguments
Resources ==
    {Resource(ns, a, 0, 0, 0, "") :
        ns \in {"user_profile", "message", "user_conversations", "user_online",
                "unread_count", "conversation_partners"}, a \in ResourceInts}
    \cup {Resource(ns, 0, 0, 0, 0, t) : ns \in {"user_username", "user_email"},
                                        t \in ResourceTexts}
    \cup {Resource("conversation_messages", a, b, l, o, "") :
            a \in ResourceInts, b \in ResourceInts, l \in ResourceInts, o \in ResourceInts}
    \cup {Resource("user_messages", a, 0, l, o, "") :
            a \in ResourceInts, l \in ResourceInts, o \in ResourceInts}
    \cup {Resource("online_users", 0, 0, 0, 0, "")}
    \cup {Resource("message_search", a, 0, l, 0, t) :
            a \in ResourceInts, l \in ResourceInts, t \in ResourceTexts}
    \cup {Resource("recent_messages", a, 0, l, 0, "") : a \in ResourceInts, l \in ResourceInts}
    \cup {Resource("user_search", 0, 0, l, 0, t) : l \in ResourceInts, t \in ResourceTexts}

\* the arguments of a view, as the services pass them
ViewArgs(r) == [NoArgs EXCEPT !.user = r.a, !.b = r.b, !.limit = r.limit,
                              !.offset = r.offset, !.q = r.text]

\* the key under which a lookup is cached
ResourceKey(r) ==
    CASE r.ns = "user_profile" -> CacheKeys_user_profile(r.a)
      [] r.ns = "user_username" -> CacheKeys_user_by_username(r.text)
      [] r.ns = "user_email" -> CacheKeys_user_by_email(r.text)
      [] r.ns = "message" -> CacheKeys_message(r.a)
      [] r.ns = "conversation_messages" ->
            CacheKeys_conversation_messages(r.a, r.b, r.limit, r.offset)
      [] r.ns = "user_conversations" -> CacheKeys_user_conversations(r.a)
      [] r.ns = "user_messages" -> CacheKeys_user_messages(r.a, r.limit, r.offset)
      [] r.ns = "online_users" -> ViewKey("get_online_users", ViewArgs(r))
      [] r.ns = "user_online" -> CacheKeys_user_online_status(r.a)
      [] r.ns = "unread_count" -> ViewKey("get_unread_count", ViewArgs(r))
      [] r.ns = "conversation_partners" -> ViewKey("get_conversation_partners", ViewArgs(r))
      [] r.ns = "message_search" -> ViewKey("search_messages", ViewArgs(r))
      [] r.ns = "recent_messages" -> ViewKey("get_recent_messages", ViewArgs(r))
      [] r.ns = "user_search" -> ViewKey("search_users", ViewArgs(r))

InitNamespace ==
    /\ kArgs = NoResource
    /\ kKey = <<>>
    /\ kKeyRev = <<>>
    /\ cacheEnabled = TRUE
    /\ storeUp = TRUE
    /\ flaky = FALSE
    /\ StoreNew
    /\ db = EmptyDb
    /\ ProcsIdle

\* a service derives the key of a lookup
DeriveResourceKey ==
    /\ \E r \in Resources :
         /\ kArgs' = r
         /\ kKey' = ResourceKey(r)
    /\ UNCHANGED <<kKeyRev, varsStore, db, varsProc, varsHist>>

NextNamespace == DeriveResourceKey

SpecNamespace == InitNamespace /\ [][NextNamespace]_vars

\* the same logical resource: equal, or the two orders of one conversation
\* page
SameResource(r1, r2) ==
    \/ r1 = r2
    \/ /\ r1.ns = "conversation_messages" /\ r2.ns = "conversation_messages"
       /\ r1.a = r2.b /\ r1.b = r2.a
       /\ r1.limit = r2.limit /\ r1.offset = r2.offset

\* C40: two lookups of different logical resources never share a cache
\* key: the CacheKeys generators and the keys built in place map different
\* (namespace, arguments) to different keys, the two orders of a
\* conversation pair excepted.
C40_KeysInjective ==
    kArgs # NoResource =>
        \A r \in Resources : ResourceKey(r) = kKey => SameResource(kArgs, r)

\* a search whose query holds the delimiter and a digit
C40_Witness ==
    /\ kArgs.ns = "message_search"
    /\ kArgs.text = "1:1"
    /\ kArgs.a = 1 /\ kArgs.limit = 11
    /\ kKey = <<"message", "_search", ":", "1", ":", "1", ":", "1", ":", "1", "1">>

====
